---- MODULE Spec2Model ----
(***************************************************************************)
(* Model of the benchmark harness of elasticsearch-rs                       *)
(* (benchmarks/src/main.rs): Config::new, the main loop over the catalog    *)
(* of Actions, and Runner::run with its setup / warmup / measured phases.   *)
(*                                                                          *)
(* Strings are TLA+ strings; format!() is modelled by concatenation and     *)
(* Vec<String>::join by Join.  Option<T> is a sequence of length 0 (None)   *)
(* or 1 (Some).                                                             *)
(***************************************************************************)
EXTENDS Integers, Sequences, FiniteSets, TLC

VARIABLES
    env,         \* the process environment: variable name -> result of std::env::var
    pc,          \* position of main (or of the harness that drives the code)
    config,      \* Option<Config>: the value bound by `let mut config` in main
    exit,        \* what the entry point returned: Option<Result<(), Error>> / panic
    catalog,     \* Benchmarks.operations
    op,          \* 1-based position of the main loop in the catalog
    action,      \* Runner.action (Option: no Runner exists when empty)
    stats,       \* Runner.stats
    rpc,         \* position inside Runner::run
    i,           \* loop variable of the warmup / measured loop
    errors,      \* local `errors` of Runner::run
    labels,      \* locals operations / category / environment of Runner::run
    start,       \* local `start` of the measured loop
    run_result,  \* Option of the value returned by Runner::run
    calls,       \* history: hook invocations made by the current Runner
    history,     \* history: per catalog entry, the number of Runner::run calls, of hook
                 \* invocations and of printed duration lines
    runs,        \* history: number of Runner::run calls on the current Runner
    runtimes,    \* number of tokio Runtimes created so far
    output,      \* what the current iteration of the main loop has printed to stdout
    previous,    \* the stats of the Runner the harness ran before the current one
    source,      \* what Error::source returned for the error held in exit
    builder,     \* the SLM request builder under construction (Option)
    request,     \* what send handed to Elasticsearch::send (Option)
    trail        \* history: the calls made on the builder since it was created

vars == <<env, pc, config, exit, catalog, op, action, stats, rpc, i, errors,
          labels, start, run_result, calls, history, runs, runtimes, output, previous,
          source, builder, request, trail>>

-----------------------------------------------------------------------------
(* Bounds *)

MaxErrors == 3
MaxWarmups == 2
MaxRepetitions == 2
MaxMixedViolations == 2
MainMaxWarmups == 1
MainMaxRepetitions == 2
MainMaxViolations == 1

-----------------------------------------------------------------------------
(* Generic helpers *)

None == <<>>
Some(x) == <<x>>
IsSome(o) == Len(o) = 1
Unwrap(o) == o[1]
UnwrapOr(o, d) == IF Len(o) = 1 THEN o[1] ELSE d

RECURSIVE Join(_, _)
Join(seq, sep) ==
    IF Len(seq) = 0 THEN ""
    ELSE IF Len(seq) = 1 THEN seq[1]
    ELSE seq[1] \o sep \o Join(Tail(seq), sep)

\* Faulty variant: the two texts change places.
ContainsReversed(hay, needle) ==
    \E k \in 0..(Len(needle) - Len(hay)) : SubSeq(needle, k + 1, k + Len(hay)) = hay

\* str::contains
Contains(hay, needle) ==
    \E k \in 0..(Len(hay) - Len(needle)) : SubSeq(hay, k + 1, k + Len(needle)) = needle

-----------------------------------------------------------------------------
(* Error and its Display *)

ErrorConfig(err) == [kind |-> "Config", msg |-> err, errs |-> <<>>]
ErrorRun(errs) == [kind |-> "Run", msg |-> "", errs |-> errs]
ErrorFrom(err) == [kind |-> "Response", msg |-> err, errs |-> <<>>]

ErrorToString(e) ==
    IF e.kind = "Run" THEN Join(e.errs, "\n") ELSE e.msg

\* Faulty variant: no kind reports a cause (the default of the trait).
ErrorSourceNone(e) == <<>>

\* error::Error::source: Some(err) for the kind Response, None otherwise.
ErrorSource(e) == IF e.kind = "Response" THEN <<e.msg>> ELSE <<>>

Ok(v) == [ok |-> TRUE, v |-> v, err |-> ""]
Err(e) == [ok |-> FALSE, v |-> "", err |-> e]

-----------------------------------------------------------------------------
(* The environment *)

env_keys ==
    << "BUILD_ID",
       "DATA_SOURCE",
       "CLIENT_BRANCH",
       "CLIENT_COMMIT",
       "CLIENT_BENCHMARK_ENVIRONMENT",
       "ELASTICSEARCH_TARGET_URL",
       "ELASTICSEARCH_REPORT_URL",
       "TARGET_SERVICE_TYPE",
       "TARGET_SERVICE_NAME",
       "TARGET_SERVICE_VERSION",
       "TARGET_SERVICE_OS_FAMILY" >>

RequiredKeys == {env_keys[n] : n \in 1..Len(env_keys)}
UrlKeys == {"ELASTICSEARCH_TARGET_URL", "ELASTICSEARCH_REPORT_URL"}
OptionalKeys == {"CLIENT_BENCHMARK_CATEGORY", "FILTER"}
AllKeys == RequiredKeys \cup OptionalKeys

\* std::env::var: Ok(value), Err(VarError::NotPresent) or Err(VarError::NotUnicode);
\* err is the Display text of the VarError.
NotPresent == Err("environment variable not found")
NotUnicode == Err("environment variable was not valid unicode: \"\\xFF\"")

\* A usable value of each required variable (distinct per variable).
GoodValue ==
    [k \in RequiredKeys |->
        CASE k = "BUILD_ID" -> "build-42"
          [] k = "DATA_SOURCE" -> "datasource"
          [] k = "CLIENT_BRANCH" -> "master"
          [] k = "CLIENT_COMMIT" -> "abc123"
          [] k = "CLIENT_BENCHMARK_ENVIRONMENT" -> "production"
          [] k = "ELASTICSEARCH_TARGET_URL" -> "http://target:9200"
          [] k = "ELASTICSEARCH_REPORT_URL" -> "http://report:9200"
          [] k = "TARGET_SERVICE_TYPE" -> "elasticsearch"
          [] k = "TARGET_SERVICE_NAME" -> "es-node"
          [] k = "TARGET_SERVICE_VERSION" -> "8.0.0"
          [] k = "TARGET_SERVICE_OS_FAMILY" -> "linux"]

\* A non-empty value that is not a URL.
BadUrl == "target.local"

FilterValues == {NotPresent, Ok(""), Ok("index"), Ok("ping,index"), Ok("in")}
CategoryValues == {NotPresent, NotUnicode, Ok(""), Ok("core")}

ValidEnv ==
    [k \in AllKeys |-> IF k \in RequiredKeys THEN Ok(GoodValue[k]) ELSE NotPresent]

\* Transport::single_node(url): Err when the text is not an absolute URL.
SingleNode(url) ==
    IF Len(url) > 7 /\ SubSeq(url, 1, 7) = "http://" THEN Ok(url) ELSE Err("invalid url")

rustc_version == "1.45.0"

-----------------------------------------------------------------------------
(* Config::new *)

\* Faulty variant: an unset and an empty variable are reported with one message.
CheckVarOneMessage(environ, e) ==
    LET r == environ[e] IN
    IF r.ok /\ r.v # "" THEN [ok |-> TRUE, key |-> e, v |-> r.v, error |-> ErrorConfig("")]
    ELSE [ok |-> FALSE, key |-> e, v |-> "",
          error |-> ErrorConfig(e \o " environment variable is not set")]

\* Faulty variant: a variable that is set to the empty text passes the check.
CheckVarAcceptEmpty(environ, e) ==
    LET r == environ[e] IN
    IF r.ok THEN [ok |-> TRUE, key |-> e, v |-> r.v, error |-> ErrorConfig("")]
    ELSE [ok |-> FALSE, key |-> e, v |-> "",
          error |-> ErrorConfig(e \o " " \o r.err)]

\* The closure mapped over env_keys (one Result per key).
CheckVar(environ, e) ==
    LET r == environ[e] IN
    IF r.ok /\ r.v # "" THEN [ok |-> TRUE, key |-> e, v |-> r.v, error |-> ErrorConfig("")]
    ELSE IF r.ok
    THEN [ok |-> FALSE, key |-> e, v |-> "",
          error |-> ErrorConfig(e \o " environment variable is empty")]
    ELSE [ok |-> FALSE, key |-> e, v |-> "",
          error |-> ErrorConfig(e \o " " \o r.err)]

IsOk(r) == r.ok
IsErr(r) == ~r.ok

Checked(environ) == [n \in 1..Len(env_keys) |-> CheckVar(environ, env_keys[n])]

\* Faulty variant: the check stops at the first violation.
PartitionErrorsFirst(environ) ==
    LET errs == SelectSeq(Checked(environ), IsErr) IN
    IF errs = <<>> THEN errs ELSE <<errs[1]>>

\* .partition(Result::is_ok): both halves keep the order of env_keys.
PartitionVars(environ) == SelectSeq(Checked(environ), IsOk)
PartitionErrors(environ) == SelectSeq(Checked(environ), IsErr)

\* Faulty variant: the messages are collected last to first.
ErrorStringsReversed(environ) ==
    LET errs == PartitionErrors(environ) IN
    [n \in 1..Len(errs) |-> ErrorToString(errs[Len(errs) + 1 - n].error)]

\* errors.into_iter().map(|e| e.unwrap_err().to_string()).collect()
ErrorStrings(environ) ==
    LET errs == PartitionErrors(environ) IN
    [n \in 1..Len(errs) |-> ErrorToString(errs[n].error)]

\* vars.into_iter().map(Result::unwrap).collect::<BTreeMap<String, String>>()
VarsMap(environ) ==
    LET vs == PartitionVars(environ) IN
    [k \in {vs[n].key : n \in 1..Len(vs)} |->
        LET n == CHOOSE m \in 1..Len(vs) : vs[m].key = k IN vs[n].v]

\* Faulty variant: the two clients are built from each other's URL.
BuildConfigSwappedClients(m) ==
    LET service == [ty |-> m["TARGET_SERVICE_TYPE"],
                    name |-> m["TARGET_SERVICE_NAME"],
                    version |-> m["TARGET_SERVICE_VERSION"],
                    git |-> [commit |-> m["CLIENT_COMMIT"],
                             branch |-> m["CLIENT_BRANCH"]]]
        os == [family |-> m["TARGET_SERVICE_OS_FAMILY"]]
    IN  [build_id |-> m["BUILD_ID"],
         environment |-> m["CLIENT_BENCHMARK_ENVIRONMENT"],
         target |-> [service |-> service, os |-> os],
         runner |-> [service |-> service,
                     runtime |-> [name |-> "rust", version |-> rustc_version],
                     os |-> os],
         runner_client |-> SingleNode(m["ELASTICSEARCH_REPORT_URL"]).v,
         report_client |-> SingleNode(m["ELASTICSEARCH_TARGET_URL"]).v]

BuildConfig(m) ==
    LET service == [ty |-> m["TARGET_SERVICE_TYPE"],
                    name |-> m["TARGET_SERVICE_NAME"],
                    version |-> m["TARGET_SERVICE_VERSION"],
                    git |-> [commit |-> m["CLIENT_COMMIT"],
                             branch |-> m["CLIENT_BRANCH"]]]
        os == [family |-> m["TARGET_SERVICE_OS_FAMILY"]]
    IN  [build_id |-> m["BUILD_ID"],
         environment |-> m["CLIENT_BENCHMARK_ENVIRONMENT"],
         target |-> [service |-> service, os |-> os],
         runner |-> [service |-> service,
                     runtime |-> [name |-> "rust", version |-> rustc_version],
                     os |-> os],
         runner_client |-> SingleNode(m["ELASTICSEARCH_TARGET_URL"]).v,
         report_client |-> SingleNode(m["ELASTICSEARCH_REPORT_URL"]).v]

NoError == [kind |-> "None", msg |-> "", errs |-> <<>>]

\* The outcome of Config::new: tag "Ok" with the Config, tag "Err" with the Error,
\* or tag "Panic" when one of the two .unwrap() calls on single_node fails.
ConfigNew(environ) ==
    IF PartitionErrors(environ) # <<>>
    THEN [tag |-> "Err", config |-> None,
          error |-> ErrorConfig(Join(ErrorStrings(environ), "\n"))]
    ELSE LET m == VarsMap(environ) IN
         IF  /\ SingleNode(m["ELASTICSEARCH_TARGET_URL"]).ok
             /\ SingleNode(m["ELASTICSEARCH_REPORT_URL"]).ok
         THEN [tag |-> "Ok", config |-> Some(BuildConfig(m)), error |-> NoError]
         ELSE [tag |-> "Panic", config |-> None, error |-> NoError]

ValidConfig == Unwrap(ConfigNew(ValidEnv).config)

-----------------------------------------------------------------------------
(* Action and the hooks *)

StatusCodes == {200, 201, 404}
TransportErrors == {"connection refused"}

\* Result<Response, elasticsearch::Error> as returned by a hook.
Response(status) == [ok |-> TRUE, status |-> status, err |-> ""]
Failure(e) == [ok |-> FALSE, status |-> 0, err |-> e]
HookResults == {Response(s) : s \in StatusCodes} \cup {Failure(e) : e \in TransportErrors}

\* StatusCode::is_success
IsSuccess(status) == status >= 200 /\ status < 300

\* Response::error_for_status_code
ErrorForStatusCode(r) ==
    IF IsSuccess(r.status) THEN Ok("") ELSE Err("status code " \o ToString(r.status))

\* Elapsed times of one invocation, in nanoseconds.
Durations == {0, 1500}

\* A hook (a fn pointer of Action): its name and the results it can return.
Hook(name, results) == [name |-> name, results |-> results]

AnyHook(name) == Hook(name, HookResults)

\* The Actions of a given name with at most the given counts, without overrides.
Actions(name, maxWarmups, maxRepetitions, setups, hooks) ==
    [action : {name},
     category : {None},
     environment : {None},
     warmups : 0..maxWarmups,
     repetitions : 0..maxRepetitions,
     operations : {None},
     setup : setups,
     run : hooks]

\* Faulty variant: the category is read from the environment override.
ActionCategorySwapped(a) == a.environment

\* Action::category / Action::environment
ActionCategory(a) == a.category
ActionEnvironment(a) == a.environment

\* CLIENT_BENCHMARK_CATEGORY and FILTER (Lazy statics read from the environment)
CLIENT_BENCHMARK_CATEGORY ==
    IF env["CLIENT_BENCHMARK_CATEGORY"].ok THEN env["CLIENT_BENCHMARK_CATEGORY"].v ELSE ""
FILTER == IF env["FILTER"].ok THEN env["FILTER"].v ELSE ""

-----------------------------------------------------------------------------
(* Runner::run *)

\* i32 arithmetic.  The model checker's integers are themselves 32 bits wide, so
\* the operators below never form an intermediate value outside the i32 range.
I32Max == 2147483647
I32Min == -I32Max - 1
Abs(x) == IF x < 0 THEN -x ELSE x

AddOverflows(a, b) == (b > 0 /\ a > I32Max - b) \/ (b < 0 /\ a < I32Min - b)

\* i32::wrapping_add
WrapAdd(a, b) ==
    IF b > 0 /\ a > I32Max - b THEN (a - I32Max - 1) + (b - I32Max - 1)
    ELSE IF b < 0 /\ a < I32Min - b THEN (a + I32Max + 1) + (b + I32Max + 1)
    ELSE a + b

WrapNeg(a) == IF a = I32Min THEN I32Min ELSE -a

WrapDouble(a) == WrapAdd(a, a)

\* a * k for 0 <= k < 16, wrapping
WrapMulSmall(a, k) ==
    LET a2 == WrapDouble(a)
        a4 == WrapDouble(a2)
        a8 == WrapDouble(a4)
        s1 == IF k % 2 = 1 THEN a ELSE 0
        s2 == IF (k \div 2) % 2 = 1 THEN WrapAdd(s1, a2) ELSE s1
        s4 == IF (k \div 4) % 2 = 1 THEN WrapAdd(s2, a4) ELSE s2
    IN  IF (k \div 8) % 2 = 1 THEN WrapAdd(s4, a8) ELSE s4

\* i32::wrapping_mul, four bits of b at a time (b = 16 * (b \div 16) + b % 16)
RECURSIVE WrapMul(_, _)
WrapMul(a, b) ==
    IF b = 0 THEN 0
    ELSE IF b = -1 THEN WrapNeg(a)
    ELSE WrapAdd(WrapDouble(WrapDouble(WrapDouble(WrapDouble(WrapMul(a, b \div 16))))),
                 WrapMulSmall(a, b % 16))

MulOverflows(a, b) ==
    IF a = 0 \/ b = 0 THEN FALSE
    ELSE IF a = I32Min THEN b # 1
    ELSE IF b = I32Min THEN a # 1
    ELSE IF (a > 0) = (b > 0) THEN Abs(b) > I32Max \div Abs(a)
    ELSE ~ \/ Abs(b) <= I32Max \div Abs(a)
           \/ Abs(b) = (I32Max \div Abs(a)) + 1 /\ I32Max % Abs(a) = Abs(a) - 1

\* warmups + repetitions * operations in i32: an overflow panics in a build with
\* overflow checks and wraps otherwise; a negative value cast to usize makes
\* Vec::with_capacity panic.
CapacityOutcomes(a) ==
    LET operations == UnwrapOr(a.operations, 1)
        prod == WrapMul(a.repetitions, operations)
        sum == WrapAdd(a.warmups, prod)
        wrapped == IF sum < 0 THEN "panicked" ELSE "setup"
    IN  IF MulOverflows(a.repetitions, operations) \/ AddOverflows(a.warmups, prod)
        THEN {"panicked", wrapped}
        ELSE {wrapped}

NoResult == [tag |-> "None", error |-> NoError]
ResultOk == [tag |-> "Ok", error |-> NoError]
ResultErr(e) == [tag |-> "Err", error |-> e]

NoLabels == [operations |-> 0, category |-> "", environment |-> "", runtime |-> 0]

\* Faulty variant: the hook is handed a 1-based index.
CallOneBased(hook, phase, n) ==
    [hook |-> hook, phase |-> phase, i |-> n + 1, runtime |-> labels.runtime,
     returned |-> FALSE, ret |-> Failure("")]

Call(hook, phase, n) ==
    [hook |-> hook, phase |-> phase, i |-> n, runtime |-> labels.runtime,
     returned |-> FALSE, ret |-> Failure("")]

Returned(res) ==
    [calls EXCEPT ![Len(calls)] = [@ EXCEPT !.returned = TRUE, !.ret = res]]

\* A hook of the current entry is invoked and handed the runtime of the run.
Hooked ==
    IF op \in DOMAIN history
    THEN [history EXCEPT ![op].hooks = @ + 1, ![op].runtime = labels.runtime]
    ELSE history
Ran == IF op \in DOMAIN history THEN [history EXCEPT ![op].runs = @ + 1] ELSE history

\* Faulty variant: run writes the category it resolved back into the Action.
RunBeginStoresLabels ==
    /\ rpc = "idle"
    /\ LET a == Unwrap(action) IN
       /\ labels' = [operations |-> UnwrapOr(a.operations, 1),
                     category |-> UnwrapOr(ActionCategory(a), CLIENT_BENCHMARK_CATEGORY),
                     environment |-> UnwrapOr(ActionEnvironment(a), Unwrap(config).environment),
                     runtime |-> runtimes + 1]
       /\ action' = Some([a EXCEPT !.category = Some(labels'.category)])
       /\ rpc' \in CapacityOutcomes(a)
    /\ runtimes' = runtimes + 1
    /\ errors' = <<>>
    /\ run_result' = NoResult
    /\ runs' = runs + 1
    /\ history' = Ran
    /\ UNCHANGED <<env, pc, config, exit, catalog, op, stats, i, start, calls,
                   output, previous, source,
                   builder, request, trail>>

\* Faulty variant: run starts by emptying the stats of the Runner.
RunBeginClearsStats ==
    /\ rpc = "idle"
    /\ LET a == Unwrap(action) IN
       /\ labels' = [operations |-> UnwrapOr(a.operations, 1),
                     category |-> UnwrapOr(ActionCategory(a), CLIENT_BENCHMARK_CATEGORY),
                     environment |-> UnwrapOr(ActionEnvironment(a), Unwrap(config).environment),
                     runtime |-> runtimes + 1]
       /\ rpc' \in CapacityOutcomes(a)
    /\ runtimes' = runtimes + 1
    /\ errors' = <<>>
    /\ stats' = <<>>
    /\ run_result' = NoResult
    /\ runs' = runs + 1
    /\ history' = Ran
    /\ UNCHANGED <<env, pc, config, exit, catalog, op, action, i, start, calls,
                   output, previous, source,
                   builder, request, trail>>

\* Faulty variant: run uses the Runtime that exists already instead of a new one.
RunBeginSharedRuntime ==
    /\ rpc = "idle"
    /\ LET a == Unwrap(action) IN
       /\ labels' = [operations |-> UnwrapOr(a.operations, 1),
                     category |-> UnwrapOr(ActionCategory(a), CLIENT_BENCHMARK_CATEGORY),
                     environment |-> UnwrapOr(ActionEnvironment(a), Unwrap(config).environment),
                     runtime |-> runtimes]
       /\ rpc' \in CapacityOutcomes(a)
    /\ runtimes' = runtimes
    /\ errors' = <<>>
    /\ run_result' = NoResult
    /\ runs' = runs + 1
    /\ history' = Ran
    /\ UNCHANGED <<env, pc, config, exit, catalog, op, action, stats, i, start, calls,
                   output, previous, source,
                   builder, request, trail>>

\* The body of run up to the `match self.action.setup`.
RunBegin ==
    /\ rpc = "idle"
    /\ LET a == Unwrap(action) IN
       /\ labels' = [operations |-> UnwrapOr(a.operations, 1),
                     category |-> UnwrapOr(ActionCategory(a), CLIENT_BENCHMARK_CATEGORY),
                     environment |-> UnwrapOr(ActionEnvironment(a), Unwrap(config).environment),
                     runtime |-> runtimes + 1]
       /\ rpc' \in CapacityOutcomes(a)
    /\ runtimes' = runtimes + 1
    /\ errors' = <<>>
    /\ run_result' = NoResult
    /\ runs' = runs + 1
    /\ history' = Ran
    /\ UNCHANGED <<env, pc, config, exit, catalog, op, action, stats, i, start, calls,
                   output, previous, source,
                   builder, request, trail>>

SetupInvoke ==
    /\ rpc = "setup"
    /\ IsSome(Unwrap(action).setup)
    /\ calls' = Append(calls, Call(Unwrap(Unwrap(action).setup).name, "setup", 0))
    /\ history' = Hooked
    /\ rpc' = "in_setup"
    /\ UNCHANGED <<env, pc, config, exit, catalog, op, action, stats, i, errors, labels,
                   start, run_result, runs, runtimes, output, previous, source,
                   builder, request, trail>>

\* Faulty variant: the result of the setup hook is dropped.
SetupReturnIgnored ==
    /\ rpc = "in_setup"
    /\ \E res \in Unwrap(Unwrap(action).setup).results : calls' = Returned(res)
    /\ rpc' = "warmup"
    /\ i' = 0
    /\ UNCHANGED <<env, pc, config, exit, catalog, op, action, stats, errors, labels,
                   start, run_result, history, runs, runtimes, output, previous, source,
                   builder, request, trail>>

\* Faulty variant: a response of the setup hook with a non-success status aborts too.
SetupReturnChecksStatus ==
    /\ rpc = "in_setup"
    /\ \E res \in Unwrap(Unwrap(action).setup).results :
        /\ calls' = Returned(res)
        /\ IF res.ok /\ IsSuccess(res.status)
           THEN /\ rpc' = "warmup"
                /\ i' = 0
                /\ run_result' = run_result
           ELSE /\ rpc' = "returned"
                /\ i' = i
                /\ run_result' = ResultErr(ErrorFrom(IF res.ok THEN ErrorForStatusCode(res).err
                                                               ELSE res.err))
    /\ UNCHANGED <<env, pc, config, exit, catalog, op, action, stats, errors, labels,
                   start, history, runs, runtimes, output, previous, source,
                   builder, request, trail>>

\* The setup hook returns; `?` returns its error from run.
SetupReturn ==
    /\ rpc = "in_setup"
    /\ \E res \in Unwrap(Unwrap(action).setup).results :
        /\ calls' = Returned(res)
        /\ IF res.ok
           THEN /\ rpc' = "warmup"
                /\ i' = 0
                /\ run_result' = run_result
           ELSE /\ rpc' = "returned"
                /\ i' = i
                /\ run_result' = ResultErr(ErrorFrom(res.err))
    /\ UNCHANGED <<env, pc, config, exit, catalog, op, action, stats, errors, labels,
                   start, history, runs, runtimes, output, previous, source,
                   builder, request, trail>>

\* Faulty variant: the setup hook may be passed over although it is defined.
SetupSkipped ==
    /\ rpc = "setup"
    /\ rpc' = "warmup"
    /\ i' = 0
    /\ UNCHANGED <<env, pc, config, exit, catalog, op, action, stats, errors, labels,
                   start, run_result, calls, history, runs, runtimes, output, previous,
                   source,
                   builder, request, trail>>

SetupNone ==
    /\ rpc = "setup"
    /\ ~IsSome(Unwrap(action).setup)
    /\ rpc' = "warmup"
    /\ i' = 0
    /\ UNCHANGED <<env, pc, config, exit, catalog, op, action, stats, errors, labels,
                   start, run_result, calls, history, runs, runtimes, output, previous,
                   source,
                   builder, request, trail>>

\* Faulty variant: a warmup is started without waiting for the one before it.
WarmupInvokeNoWait ==
    /\ rpc \in {"warmup", "in_warmup"}
    /\ i < Unwrap(action).warmups
    /\ calls' = Append(calls, Call(Unwrap(action).run.name, "warmup", i))
    /\ history' = Hooked
    /\ rpc' = "in_warmup"
    /\ UNCHANGED <<env, pc, config, exit, catalog, op, action, stats, i, errors, labels,
                   start, run_result, runs, runtimes, output, previous, source,
                   builder, request, trail>>

WarmupInvoke ==
    /\ rpc = "warmup"
    /\ i < Unwrap(action).warmups
    /\ calls' = Append(calls, Call(Unwrap(action).run.name, "warmup", i))
    /\ history' = Hooked
    /\ rpc' = "in_warmup"
    /\ UNCHANGED <<env, pc, config, exit, catalog, op, action, stats, i, errors, labels,
                   start, run_result, runs, runtimes, output, previous, source,
                   builder, request, trail>>

WarmupMessage(n, e) == "warmup " \o ToString(n) \o ": " \o e

\* Faulty variant: the message is put in front of the list.
WarmupErrorsPrepend(errs, n, res) ==
    IF res.ok
    THEN IF ~IsSuccess(res.status)
         THEN <<WarmupMessage(n, ErrorForStatusCode(res).err)>> \o errs
         ELSE errs
    ELSE <<WarmupMessage(n, res.err)>> \o errs

WarmupErrors(errs, n, res) ==
    IF res.ok
    THEN IF ~IsSuccess(res.status)
         THEN Append(errs, WarmupMessage(n, ErrorForStatusCode(res).err))
         ELSE errs
    ELSE Append(errs, WarmupMessage(n, res.err))

\* Faulty variant: a failed warmup ends the warmup loop.
WarmupReturnBreak ==
    /\ rpc = "in_warmup"
    /\ \E res \in Unwrap(action).run.results :
        /\ calls' = Returned(res)
        /\ errors' = WarmupErrors(errors, i, res)
        /\ IF res.ok /\ IsSuccess(res.status)
           THEN i' = i + 1 /\ rpc' = "warmup"
           ELSE i' = 0 /\ rpc' = "measure"
    /\ UNCHANGED <<env, pc, config, exit, catalog, op, action, stats, labels,
                   start, run_result, history, runs, runtimes, output, previous, source,
                   builder, request, trail>>

WarmupReturn ==
    /\ rpc = "in_warmup"
    /\ \E res \in Unwrap(action).run.results :
        /\ calls' = Returned(res)
        /\ errors' = WarmupErrors(errors, i, res)
    /\ i' = i + 1
    /\ rpc' = "warmup"
    /\ UNCHANGED <<env, pc, config, exit, catalog, op, action, stats, labels,
                   start, run_result, history, runs, runtimes, output, previous, source,
                   builder, request, trail>>

\* Faulty variant: the messages of the warmups are dropped before measuring.
WarmupEndClearsErrors ==
    /\ rpc = "warmup"
    /\ i >= Unwrap(action).warmups
    /\ rpc' = "measure"
    /\ i' = 0
    /\ errors' = <<>>
    /\ UNCHANGED <<env, pc, config, exit, catalog, op, action, stats, labels,
                   start, run_result, calls, history, runs, runtimes, output, previous, source,
                   builder, request, trail>>

\* Faulty variant: the measured loop goes on from the index the warmups reached.
WarmupEndKeepIndex ==
    /\ rpc = "warmup"
    /\ i >= Unwrap(action).warmups
    /\ rpc' = "measure"
    /\ i' = i
    /\ UNCHANGED <<env, pc, config, exit, catalog, op, action, stats, errors, labels,
                   start, run_result, calls, history, runs, runtimes, output, previous,
                   source,
                   builder, request, trail>>

WarmupEnd ==
    /\ rpc = "warmup"
    /\ i >= Unwrap(action).warmups
    /\ rpc' = "measure"
    /\ i' = 0
    /\ UNCHANGED <<env, pc, config, exit, catalog, op, action, stats, errors, labels,
                   start, run_result, calls, history, runs, runtimes, output, previous,
                   source,
                   builder, request, trail>>

\* Utc::now() is abstracted to the logical time of the invocation.
MeasureInvoke ==
    /\ rpc = "measure"
    /\ i < Unwrap(action).repetitions
    /\ start' = Len(calls)
    /\ calls' = Append(calls, Call(Unwrap(action).run.name, "measure", i))
    /\ history' = Hooked
    /\ rpc' = "in_measure"
    /\ UNCHANGED <<env, pc, config, exit, catalog, op, action, stats, i, errors, labels,
                   run_result, runs, runtimes, output, previous, source,
                   builder, request, trail>>

RunMessage(n, e) == "run " \o ToString(n) \o ": " \o e

\* Faulty variant: a response with a non-success status leaves no message.
MeasureErrorsTransportOnly(errs, n, res) ==
    IF res.ok THEN errs ELSE Append(errs, RunMessage(n, res.err))

MeasureErrors(errs, n, res) ==
    IF res.ok
    THEN IF ~IsSuccess(res.status)
         THEN Append(errs, RunMessage(n, ErrorForStatusCode(res).err))
         ELSE errs
    ELSE Append(errs, RunMessage(n, res.err))

\* Faulty variant: only 200 counts as success.
OutcomeOnly200(res) ==
    IF res.ok /\ res.status = 200 THEN "success" ELSE "failure"

Outcome(res) ==
    IF res.ok
    THEN IF ~IsSuccess(res.status) THEN "" \o "failure" ELSE "" \o "success"
    ELSE "" \o "failure"

\* Faulty variant: the status code is kept for successful responses only.
StatusCodeOfSuccess(res) ==
    IF res.ok /\ IsSuccess(res.status) THEN Some(res.status) ELSE None

StatusCodeOf(res) == IF res.ok THEN Some(res.status) ELSE None

\* Faulty variant: the elapsed time is taken with the wrong sign.
NewStatsNegated(st, duration, res) ==
    [start |-> st, duration |-> 0 - duration, outcome |-> Outcome(res),
     status_code |-> StatusCodeOf(res)]

NewStats(st, duration, res) ==
    [start |-> st, duration |-> duration, outcome |-> Outcome(res),
     status_code |-> StatusCodeOf(res)]

\* Faulty variant: the record is put in front of the others.
StatsPushFront(st, rec) == <<rec>> \o st

\* Faulty variant: a failed repetition leaves no record.
StatsPushUnlessFailure(st, rec) ==
    IF rec.outcome = "failure" THEN st ELSE Append(st, rec)

\* self.stats.push(..)
StatsPush(st, rec) == Append(st, rec)

MeasureReturn ==
    /\ rpc = "in_measure"
    /\ \E res \in Unwrap(action).run.results, duration \in Durations :
        /\ calls' = Returned(res)
        /\ errors' = MeasureErrors(errors, i, res)
        /\ stats' = StatsPush(stats, NewStats(start, duration, res))
    /\ i' = i + 1
    /\ rpc' = "measure"
    /\ UNCHANGED <<env, pc, config, exit, catalog, op, action, labels,
                   start, run_result, history, runs, runtimes, output, previous, source,
                   builder, request, trail>>

\* Faulty variant: the error list is not looked at.
RunResultAlwaysOk(errs) == ResultOk

RunResult(errs) == IF errs = <<>> THEN ResultOk ELSE ResultErr(ErrorRun(errs))

MeasureEnd ==
    /\ rpc = "measure"
    /\ i >= Unwrap(action).repetitions
    /\ run_result' = RunResult(errors)
    /\ rpc' = "returned"
    /\ UNCHANGED <<env, pc, config, exit, catalog, op, action, stats, i, errors, labels,
                   start, calls, history, runs, runtimes, output, previous, source,
                   builder, request, trail>>

RunnerStep ==
    \/ RunBegin
    \/ SetupInvoke
    \/ SetupReturn
    \/ SetupNone
    \/ WarmupInvoke
    \/ WarmupReturn
    \/ WarmupEnd
    \/ MeasureInvoke
    \/ MeasureReturn
    \/ MeasureEnd

-----------------------------------------------------------------------------
(* A fresh Runner on one Action, run once *)

\* Runner::new
RunnerNew(a) ==
    /\ action = Some(a)
    /\ stats = <<>>

InitRunner ==
    /\ env = ValidEnv
    /\ pc = "harness"
    /\ config = Some(ValidConfig)
    /\ exit = NoResult
    /\ catalog = <<>>
    /\ op = 0
    /\ \E a \in Actions("ping", MaxWarmups, MaxRepetitions,
                         {None, Some(AnyHook("setup"))}, {AnyHook("run")}) : RunnerNew(a)
    /\ rpc = "idle"
    /\ i = 0
    /\ errors = <<>>
    /\ labels = NoLabels
    /\ start = 0
    /\ run_result = NoResult
    /\ calls = <<>>
    /\ history = <<>>
    /\ runs = 0
    /\ runtimes = 0
    /\ output = <<>>
    /\ previous = <<>>
    /\ source = None
    /\ builder = None
    /\ request = None
    /\ trail = <<>>

NextRunner == RunnerStep

SpecRunner == InitRunner /\ [][NextRunner]_vars

-----------------------------------------------------------------------------
(* The start of run on Actions whose counts lie at the edges of i32 *)

\* warmups and repetitions: non-negative i32 values; operations: any i32 or absent.
CapacityCounts == {0, 1, 2, 65536, I32Max}
CapacityOperations ==
    {None} \cup {Some(n) : n \in {I32Min, -1, 0, 1, 2, 65536, I32Max}}

InitCapacity ==
    /\ env = ValidEnv
    /\ pc = "harness"
    /\ config = Some(ValidConfig)
    /\ exit = NoResult
    /\ catalog = <<>>
    /\ op = 0
    /\ \E w \in CapacityCounts, r \in CapacityCounts, o \in CapacityOperations :
          RunnerNew([action |-> "ping", category |-> None, environment |-> None,
                     warmups |-> w, repetitions |-> r, operations |-> o,
                     setup |-> None, run |-> AnyHook("run")])
    /\ rpc = "idle"
    /\ i = 0
    /\ errors = <<>>
    /\ labels = NoLabels
    /\ start = 0
    /\ run_result = NoResult
    /\ calls = <<>>
    /\ history = <<>>
    /\ runs = 0
    /\ runtimes = 0
    /\ output = <<>>
    /\ previous = <<>>
    /\ source = None
    /\ builder = None
    /\ request = None
    /\ trail = <<>>

\* run up to the creation of the error list; the loops are not entered.
NextCapacity == RunBegin

SpecCapacity == InitCapacity /\ [][NextCapacity]_vars

-----------------------------------------------------------------------------
(* The same Action run twice, each time by a fresh Runner, with hooks that succeed *)

\* A hook that always answers 200.
SucceedingHook(name) == Hook(name, {Response(200)})

InitTwice ==
    /\ env = ValidEnv
    /\ pc = "harness"
    /\ config = Some(ValidConfig)
    /\ exit = NoResult
    /\ catalog = <<>>
    /\ op = 1
    /\ \E a \in Actions("ping", MaxWarmups, MaxRepetitions,
                         {None, Some(SucceedingHook("setup"))},
                         {SucceedingHook("run")}) : RunnerNew(a)
    /\ rpc = "idle"
    /\ i = 0
    /\ errors = <<>>
    /\ labels = NoLabels
    /\ start = 0
    /\ run_result = NoResult
    /\ calls = <<>>
    /\ history = <<>>
    /\ runs = 0
    /\ runtimes = 0
    /\ output = <<>>
    /\ previous = <<>>
    /\ source = None
    /\ builder = None
    /\ request = None
    /\ trail = <<>>

\* The first run has returned: its stats are kept aside and Runner::new builds
\* the Runner of the second run, for the same Action (op counts the Runners).
RunnerAgain ==
    /\ pc = "harness"
    /\ rpc = "returned"
    /\ op = 1
    /\ previous' = stats
    /\ op' = 2
    /\ action' = action
    /\ stats' = <<>>
    /\ rpc' = "idle"
    /\ calls' = <<>>
    /\ runs' = 0
    /\ UNCHANGED <<env, pc, config, exit, catalog, i, errors, labels, start, run_result,
                   history, runtimes, output, source,
                   builder, request, trail>>

NextTwice ==
    \/ RunnerStep
    \/ RunnerAgain

SpecTwice == InitTwice /\ [][NextTwice]_vars

-----------------------------------------------------------------------------
(* One Runner whose run is called several times *)

MaxRuns == 2

\* The largest counts of the Action that is run again.
SameWarmups == 1
SameRepetitions == 2

SameSetup == Hook("setup", {Response(200), Failure("connection refused")})
SameHook == Hook("run", {Response(200), Response(404)})

InitSame ==
    /\ env = ValidEnv
    /\ pc = "harness"
    /\ config = Some(ValidConfig)
    /\ exit = NoResult
    /\ catalog = <<>>
    /\ op = 0
    /\ \E a \in Actions("ping", SameWarmups, SameRepetitions,
                         {None, Some(SameSetup)}, {SameHook}) : RunnerNew(a)
    /\ rpc = "idle"
    /\ i = 0
    /\ errors = <<>>
    /\ labels = NoLabels
    /\ start = 0
    /\ run_result = NoResult
    /\ calls = <<>>
    /\ history = <<>>
    /\ runs = 0
    /\ runtimes = 0
    /\ output = <<>>
    /\ previous = <<>>
    /\ source = None
    /\ builder = None
    /\ request = None
    /\ trail = <<>>

\* run has returned and the harness calls it again on the same Runner: no field
\* of the Runner is touched between the two calls.
RunAgain ==
    /\ pc = "harness"
    /\ rpc = "returned"
    /\ runs < MaxRuns
    /\ rpc' = "idle"
    /\ UNCHANGED <<env, pc, config, exit, catalog, op, action, stats, i, errors, labels,
                   start, run_result, calls, history, runs, runtimes, output, previous,
                   source,
                   builder, request, trail>>

NextSame ==
    \/ RunnerStep
    \/ RunAgain

SpecSame == InitSame /\ [][NextSame]_vars

-----------------------------------------------------------------------------
(* A fresh Runner on an Action with or without label overrides *)

\* The Actions of Actions(..) with each combination of the given overrides.
LabelledActions(name, maxWarmups, maxRepetitions, categories, environments) ==
    {[a EXCEPT !.category = c, !.environment = e] :
        a \in Actions(name, maxWarmups, maxRepetitions,
                      {None, Some(SucceedingHook("setup"))}, {SucceedingHook("run")}),
        c \in categories, e \in environments}

InitLabels ==
    /\ \E category \in CategoryValues :
          env = [ValidEnv EXCEPT !["CLIENT_BENCHMARK_CATEGORY"] = category]
    /\ pc = "harness"
    /\ config = ConfigNew(env).config
    /\ exit = NoResult
    /\ catalog = <<>>
    /\ op = 0
    /\ \E a \in LabelledActions("ping", MaxWarmups, MaxRepetitions,
                                 {None, Some("search")}, {None, Some("staging")}) :
          RunnerNew(a)
    /\ rpc = "idle"
    /\ i = 0
    /\ errors = <<>>
    /\ labels = NoLabels
    /\ start = 0
    /\ run_result = NoResult
    /\ calls = <<>>
    /\ history = <<>>
    /\ runs = 0
    /\ runtimes = 0
    /\ output = <<>>
    /\ previous = <<>>
    /\ source = None
    /\ builder = None
    /\ request = None
    /\ trail = <<>>

NextLabels == RunnerStep

SpecLabels == InitLabels /\ [][NextLabels]_vars

-----------------------------------------------------------------------------
(* An Error of each kind is constructed, displayed and asked for its source *)

\* Messages a list of errors of a run can hold, and texts of the other kinds.
RunTexts == {"warmup 0: connection refused", "run 0: status code 404", "run 1: connection refused"}
ConfigTexts == {"BUILD_ID environment variable is empty",
                "BUILD_ID environment variable not found\nDATA_SOURCE environment variable is empty"}

\* The sequences over S of length at most n.
SeqsUpTo(S, n) == UNION {[1..m -> S] : m \in 0..n}

\* errors holds what the constructor is given; pc tells which constructor.
InitError ==
    /\ \/ pc = "new_run" /\ errors \in SeqsUpTo(RunTexts, MaxErrors)
       \/ pc = "new_config" /\ \E t \in ConfigTexts : errors = <<t>>
       \/ pc = "new_response" /\ \E t \in TransportErrors : errors = <<t>>
    /\ env = ValidEnv
    /\ config = None
    /\ exit = NoResult
    /\ catalog = <<>>
    /\ op = 0
    /\ action = None
    /\ stats = <<>>
    /\ rpc = "none"
    /\ i = 0
    /\ labels = NoLabels
    /\ start = 0
    /\ run_result = NoResult
    /\ calls = <<>>
    /\ history = <<>>
    /\ runs = 0
    /\ runtimes = 0
    /\ output = <<>>
    /\ previous = <<>>
    /\ source = None
    /\ builder = None
    /\ request = None
    /\ trail = <<>>

\* Error::config / Error::run / Error::from
ConstructError ==
    /\ pc \in {"new_run", "new_config", "new_response"}
    /\ exit' = ResultErr(CASE pc = "new_run" -> ErrorRun(errors)
                           [] pc = "new_config" -> ErrorConfig(errors[1])
                           [] OTHER -> ErrorFrom(errors[1]))
    /\ pc' = "constructed"
    /\ UNCHANGED <<env, config, catalog, op, action, stats, rpc, i, errors, labels, start,
                   run_result, calls, history, runs, runtimes, output, previous, source,
                   builder, request, trail>>

\* println!("{}", e.to_string())
DisplayError ==
    /\ pc = "constructed"
    /\ output' = <<ErrorToString(exit.error)>>
    /\ pc' = "displayed"
    /\ UNCHANGED <<env, config, exit, catalog, op, action, stats, rpc, i, errors, labels,
                   start, run_result, calls, history, runs, runtimes, previous, source,
                   builder, request, trail>>

\* e.source()
SourceOfError ==
    /\ pc = "displayed"
    /\ source' = ErrorSource(exit.error)
    /\ pc' = "asked"
    /\ UNCHANGED <<env, config, exit, catalog, op, action, stats, rpc, i, errors, labels,
                   start, run_result, calls, history, runs, runtimes, output, previous,
                   builder, request, trail>>

NextError ==
    \/ ConstructError
    \/ DisplayError
    \/ SourceOfError

SpecError == InitError /\ [][NextError]_vars

-----------------------------------------------------------------------------
(* Config::new called on an arbitrary environment *)

ViolationKinds == {NotPresent, NotUnicode, Ok("")}

\* Assignments of a violation to at most n required variables.
Violations(n) ==
    UNION {[V -> ViolationKinds] : V \in {b \in SUBSET RequiredKeys : Cardinality(b) <= n}}

\* Assignments of one and the same violation to any set of required variables.
UniformViolations ==
    {[k \in V |-> d] : V \in SUBSET RequiredKeys, d \in ViolationKinds}

\* The environment in which the variables of DOMAIN f are violated as f says, the
\* URL variables of u hold a text that is not a URL, and the rest is usable.
Environment(f, u, filter, category) ==
    [k \in AllKeys |->
        IF k \in DOMAIN f THEN f[k]
        ELSE IF k \in u THEN Ok(BadUrl)
        ELSE IF k \in RequiredKeys THEN Ok(GoodValue[k])
        ELSE IF k = "FILTER" THEN filter
        ELSE category]

\* A second usable value of each required variable.
OtherValue == [k \in RequiredKeys |-> GoodValue[k] \o "-2"]

\* The usable environments: each required variable holds one of its two values.
UsableEnvironments ==
    {[k \in AllKeys |-> IF k \in V THEN Ok(OtherValue[k]) ELSE ValidEnv[k]] :
        V \in SUBSET RequiredKeys}

InitConfig ==
    /\ \/ \E f \in Violations(MaxMixedViolations) \cup UniformViolations :
          \E u \in SUBSET (UrlKeys \ DOMAIN f) :
             env = Environment(f, u, NotPresent, NotPresent)
       \/ env \in UsableEnvironments
    /\ pc = "config"
    /\ config = None
    /\ exit = NoResult
    /\ catalog = <<>>
    /\ op = 0
    /\ action = None
    /\ stats = <<>>
    /\ rpc = "none"
    /\ i = 0
    /\ errors = <<>>
    /\ labels = NoLabels
    /\ start = 0
    /\ run_result = NoResult
    /\ calls = <<>>
    /\ history = <<>>
    /\ runs = 0
    /\ runtimes = 0
    /\ output = <<>>
    /\ previous = <<>>
    /\ source = None
    /\ builder = None
    /\ request = None
    /\ trail = <<>>

\* One call of Config::new; exit holds what it returned.
CallConfigNew ==
    /\ pc = "config"
    /\ LET r == ConfigNew(env) IN
       /\ config' = r.config
       /\ exit' = [tag |-> r.tag, error |-> r.error]
    /\ pc' = "config_done"
    /\ UNCHANGED <<env, catalog, op, action, stats, rpc, i, errors, labels, start,
                   run_result, calls, history, runs, runtimes, output, previous, source,
                   builder, request, trail>>

NextConfig == CallConfigNew

SpecConfig == InitConfig /\ [][NextConfig]_vars

-----------------------------------------------------------------------------
(* main *)

\* Faulty variant: the catalog lists index before ping.
BenchmarksSwapped(ping, index) == <<index, ping>>

\* Benchmarks::new: vec![ping_action(), index_action()]
Benchmarks(ping, index) == <<ping, index>>

\* The hooks considered for the catalog: ping answers 200 or meets a transport
\* error, index answers 201 or 404.
PingHook == Hook("ping_run", {Response(200), Failure("connection refused")})
IndexHook == Hook("index_run", {Response(201), Response(404)})
MainSetup == Hook("setup", {Response(200), Failure("connection refused")})

MainActions(name, run) ==
    Actions(name, MainMaxWarmups, MainMaxRepetitions, {None, Some(MainSetup)}, {run})

NoHistory ==
    [runs |-> 0, hooks |-> 0, lines |-> 0, printed |-> FALSE, result |-> "None", runtime |-> 0]

Init ==
    /\ \E f \in Violations(MainMaxViolations), filter \in FilterValues :
       \E u \in SUBSET (UrlKeys \ DOMAIN f) :
          env = Environment(f, u, filter, NotPresent)
    /\ pc = "main"
    /\ config = None
    /\ exit = NoResult
    /\ catalog = <<>>
    /\ op = 0
    /\ action = None
    /\ stats = <<>>
    /\ rpc = "none"
    /\ i = 0
    /\ errors = <<>>
    /\ labels = NoLabels
    /\ start = 0
    /\ run_result = NoResult
    /\ calls = <<>>
    /\ history = <<>>
    /\ runs = 0
    /\ runtimes = 0
    /\ output = <<>>
    /\ previous = <<>>
    /\ source = None
    /\ builder = None
    /\ request = None
    /\ trail = <<>>

\* let mut config = Config::new(..)?; Benchmarks::new(); Runtime::new().unwrap()
MainStart ==
    /\ pc = "main"
    /\ LET r == ConfigNew(env) IN
       /\ config' = r.config
       /\ IF r.tag = "Ok"
          THEN /\ pc' = "loop"
               /\ op' = 1
               /\ runtimes' = runtimes + 1
               /\ exit' = exit
               /\ \E ping \in MainActions("ping", PingHook),
                     index \in MainActions("index", IndexHook) :
                     catalog' = Benchmarks(ping, index)
               /\ history' = [n \in 1..2 |-> NoHistory]
          ELSE /\ pc' = "exited"
               /\ op' = op
               /\ runtimes' = runtimes
               /\ exit' = [tag |-> r.tag, error |-> r.error]
               /\ catalog' = catalog
               /\ history' = history
    /\ UNCHANGED <<env, action, stats, rpc, i, errors, labels, start,
                   run_result, calls, runs, output, previous, source,
                   builder, request, trail>>

\* if FILTER.contains(&operation.action) { continue; }
MainSkip ==
    /\ pc = "loop"
    /\ op <= Len(catalog)
    /\ Contains(FILTER, catalog[op].action)
    /\ op' = op + 1
    /\ output' = <<>>
    /\ UNCHANGED <<env, pc, config, exit, catalog, action, stats, rpc, i, errors, labels,
                   start, run_result, calls, history, runs, runtimes, previous, source,
                   builder, request, trail>>

\* let mut runner = Runner::new(&config, &operation);
MainRunnerNew ==
    /\ pc = "loop"
    /\ op <= Len(catalog)
    /\ ~Contains(FILTER, catalog[op].action)
    /\ action' = Some(catalog[op])
    /\ stats' = <<>>
    /\ rpc' = "idle"
    /\ calls' = <<>>
    /\ runs' = 0
    /\ pc' = "running"
    /\ output' = <<>>
    /\ UNCHANGED <<env, config, exit, catalog, op, i, errors, labels, start, run_result,
                   history, runtimes, previous, source,
                   builder, request, trail>>

\* What run returned: "Ok", or the kind of its error.
ResultKind(result) == IF result.tag = "Err" THEN result.error.kind ELSE result.tag

StatLine(name, stat) == name \o ": " \o ToString(stat.duration) \o "ns"

\* Faulty variant: the durations are printed only when run returned Ok.
PrintedOnlyOnSuccess(name, result, st) ==
    IF result.tag = "Err" THEN <<ErrorToString(result.error)>>
    ELSE [n \in 1..Len(st) |-> StatLine(name, st[n])]

Printed(name, result, st) ==
    (IF result.tag = "Err" THEN <<ErrorToString(result.error)>> ELSE <<>>)
        \o [n \in 1..Len(st) |-> StatLine(name, st[n])]

\* Faulty variant: an error returned by run is propagated out of main (run()?).
MainPrintFatal ==
    /\ pc = "running"
    /\ rpc = "returned"
    /\ output' = output \o Printed(catalog[op].action, run_result, stats)
    /\ history' = [history EXCEPT ![op].lines = @ + Len(stats),
                                  ![op].printed = TRUE,
                                  ![op].result = ResultKind(run_result)]
    /\ action' = None
    /\ stats' = <<>>
    /\ rpc' = "none"
    /\ calls' = <<>>
    /\ errors' = <<>>
    /\ labels' = NoLabels
    /\ run_result' = NoResult
    /\ i' = 0
    /\ start' = 0
    /\ runs' = 0
    /\ op' = op + 1
    /\ IF run_result.tag = "Err"
       THEN pc' = "exited" /\ exit' = run_result
       ELSE pc' = "loop" /\ exit' = exit
    /\ UNCHANGED <<env, config, catalog, runtimes, previous, source,
                   builder, request, trail>>

\* runner.run() has returned: print its error and one line per stat; the runner
\* is dropped at the end of the iteration.
MainPrint ==
    /\ pc = "running"
    /\ rpc = "returned"
    /\ output' = output \o Printed(catalog[op].action, run_result, stats)
    /\ history' = [history EXCEPT ![op].lines = @ + Len(stats),
                                  ![op].printed = TRUE,
                                  ![op].result = ResultKind(run_result)]
    /\ action' = None
    /\ stats' = <<>>
    /\ rpc' = "none"
    /\ calls' = <<>>
    /\ errors' = <<>>
    /\ labels' = NoLabels
    /\ run_result' = NoResult
    /\ i' = 0
    /\ start' = 0
    /\ runs' = 0
    /\ op' = op + 1
    /\ pc' = "loop"
    /\ UNCHANGED <<env, config, exit, catalog, runtimes, previous, source,
                   builder, request, trail>>

\* Faulty variant: main ends with an error when some Action returned one.
MainExitFailing ==
    /\ pc = "loop"
    /\ op > Len(catalog)
    /\ exit' = IF \E n \in DOMAIN history : history[n].result \in {"Run", "Response"}
               THEN ResultErr(ErrorRun(<<>>))
               ELSE ResultOk
    /\ pc' = "exited"
    /\ UNCHANGED <<env, config, catalog, op, action, stats, rpc, i, errors, labels,
                   start, run_result, calls, history, runs, runtimes, output, previous,
                   source,
                   builder, request, trail>>

\* Ok(())
MainExit ==
    /\ pc = "loop"
    /\ op > Len(catalog)
    /\ exit' = ResultOk
    /\ pc' = "exited"
    /\ UNCHANGED <<env, config, catalog, op, action, stats, rpc, i, errors, labels,
                   start, run_result, calls, history, runs, runtimes, output, previous,
                   source,
                   builder, request, trail>>

Next ==
    \/ MainStart
    \/ MainSkip
    \/ MainRunnerNew
    \/ RunnerStep
    \/ MainPrint
    \/ MainExit

Spec == Init /\ [][Next]_vars

\* main is one sequential thread: a step that is possible is taken. This holds as
\* long as every hook invocation returns, which the fairness condition assumes.
\* The environments it is checked in are those in which Config::new succeeds.
InitFair ==
    /\ \E filter \in {NotPresent, Ok("index"), Ok("ping,index")} :
          env = Environment(<<>>, {}, filter, NotPresent)
    /\ pc = "main"
    /\ config = None
    /\ exit = NoResult
    /\ catalog = <<>>
    /\ op = 0
    /\ action = None
    /\ stats = <<>>
    /\ rpc = "none"
    /\ i = 0
    /\ errors = <<>>
    /\ labels = NoLabels
    /\ start = 0
    /\ run_result = NoResult
    /\ calls = <<>>
    /\ history = <<>>
    /\ runs = 0
    /\ runtimes = 0
    /\ output = <<>>
    /\ previous = <<>>
    /\ source = None
    /\ builder = None
    /\ request = None
    /\ trail = <<>>

SpecFair == InitFair /\ [][Next]_vars /\ WF_vars(Next)

-----------------------------------------------------------------------------
(* The request builders of the SLM namespace client (slm.rs) *)

MaxCalls == 3

SlmApis ==
    {"delete_lifecycle", "execute_lifecycle", "execute_retention", "get_lifecycle",
     "get_stats", "get_status", "put_lifecycle", "start", "stop"}

\* The parts enums: PolicyId(&str) holds one id, PolicyId(&[&str]) of
\* SlmGetLifecycleParts a list of ids.
PolicyId(ids) == [kind |-> "PolicyId", ids |-> ids]
NoParts == [kind |-> "None", ids |-> <<>>]

PolicyIds == {"daily", "a/b c"}
PolicyIdLists == {<<>>, <<"daily">>, <<"daily", "a/b c">>}

PartsOf(api) ==
    CASE api \in {"delete_lifecycle", "execute_lifecycle", "put_lifecycle"} ->
            {PolicyId(<<p>>) : p \in PolicyIds}
      [] api = "get_lifecycle" -> {NoParts} \cup {PolicyId(l) : l \in PolicyIdLists}
      [] OTHER -> {NoParts}

\* PARTS_ENCODED: every byte is escaped except ASCII letters and digits and the
\* characters _ - . , *
Unreserved ==
    {"a", "b", "c", "d", "e", "f", "g", "h", "i", "j", "k", "l", "m", "n", "o", "p", "q",
     "r", "s", "t", "u", "v", "w", "x", "y", "z", "0", "1", "2", "3", "4", "5", "6", "7",
     "8", "9", "_", "-", ".", ",", "*"}

Escaped(c) ==
    CASE c = " " -> "%20"
      [] c = "#" -> "%23"
      [] c = "%" -> "%25"
      [] c = "+" -> "%2B"
      [] c = "/" -> "%2F"
      [] c = ":" -> "%3A"
      [] c = "?" -> "%3F"

\* percent_encode(s.as_bytes(), PARTS_ENCODED)
RECURSIVE PercentEncode(_)
PercentEncode(s) ==
    IF Len(s) = 0 THEN ""
    ELSE LET c == SubSeq(s, 1, 1) IN
         (IF c \in Unreserved THEN c ELSE Escaped(c)) \o PercentEncode(SubSeq(s, 2, Len(s)))

\* SlmDeleteLifecycleParts::url
SlmDeleteLifecyclePartsUrl(parts) == "/_slm/policy/" \o PercentEncode(parts.ids[1])

\* Faulty variant: the suffix of the execute endpoint is left out.
SlmExecuteLifecyclePartsUrlNoSuffix(parts) == "/_slm/policy/" \o PercentEncode(parts.ids[1])

\* SlmExecuteLifecycleParts::url
SlmExecuteLifecyclePartsUrl(parts) ==
    "/_slm/policy/" \o PercentEncode(parts.ids[1]) \o "/_execute"

\* SlmGetLifecycleParts::url
SlmGetLifecyclePartsUrl(parts) ==
    IF parts.kind = "PolicyId"
    THEN "/_slm/policy/" \o PercentEncode(Join(parts.ids, ","))
    ELSE "/_slm/policy"

\* SlmPutLifecycleParts::url
SlmPutLifecyclePartsUrl(parts) == "/_slm/policy/" \o PercentEncode(parts.ids[1])

SlmExecuteRetentionPartsUrl(parts) == "/_slm/_execute_retention"
SlmGetStatsPartsUrl(parts) == "/_slm/stats"
SlmGetStatusPartsUrl(parts) == "/_slm/status"
SlmStartPartsUrl(parts) == "/_slm/start"
SlmStopPartsUrl(parts) == "/_slm/stop"

\* self.parts.url() of the builder of the given API
Url(api, parts) ==
    CASE api = "delete_lifecycle" -> SlmDeleteLifecyclePartsUrl(parts)
      [] api = "execute_lifecycle" -> SlmExecuteLifecyclePartsUrl(parts)
      [] api = "execute_retention" -> SlmExecuteRetentionPartsUrl(parts)
      [] api = "get_lifecycle" -> SlmGetLifecyclePartsUrl(parts)
      [] api = "get_stats" -> SlmGetStatsPartsUrl(parts)
      [] api = "get_status" -> SlmGetStatusPartsUrl(parts)
      [] api = "put_lifecycle" -> SlmPutLifecyclePartsUrl(parts)
      [] api = "start" -> SlmStartPartsUrl(parts)
      [] api = "stop" -> SlmStopPartsUrl(parts)

\* Faulty variant: execute_lifecycle is sent with POST.
MethodExecutePost(api) ==
    CASE api = "delete_lifecycle" -> "DELETE"
      [] api \in {"get_lifecycle", "get_stats", "get_status"} -> "GET"
      [] api = "put_lifecycle" -> "PUT"
      [] api \in {"execute_lifecycle", "execute_retention", "start", "stop"} -> "POST"

\* `let method = ..` of each send
Method(api) ==
    CASE api = "delete_lifecycle" -> "DELETE"
      [] api \in {"get_lifecycle", "get_stats", "get_status"} -> "GET"
      [] api \in {"execute_lifecycle", "put_lifecycle"} -> "PUT"
      [] api \in {"execute_retention", "start", "stop"} -> "POST"

\* The builders that have a body field and a body() method.
HasBody(api) ==
    api \in {"execute_lifecycle", "execute_retention", "put_lifecycle", "start", "stop"}

\* The new() of each builder.
BuilderOf(api, parts) ==
    [api |-> api, parts |-> parts, body |-> None, error_trace |-> None,
     filter_path |-> None, headers |-> {}, human |-> None, pretty |-> None,
     source |-> None]

\* HeaderMap::insert: the value replaces the one the key had.
HeaderMapInsert(h, key, value) == {p \in h : p[1] # key} \cup {<<key, value>>}

\* The setters
ErrorTrace(b, error_trace) == [b EXCEPT !.error_trace = Some(error_trace)]
FilterPath(b, filter_path) == [b EXCEPT !.filter_path = Some(filter_path)]
Header(b, key, value) == [b EXCEPT !.headers = HeaderMapInsert(@, key, value)]
Human(b, human) == [b EXCEPT !.human = Some(human)]

\* Faulty variant: pretty() writes to human as well.
PrettySetsHuman(b, pretty) == [b EXCEPT !.pretty = Some(pretty), !.human = Some(pretty)]

Pretty(b, pretty) == [b EXCEPT !.pretty = Some(pretty)]
Source(b, src) == [b EXCEPT !.source = Some(src)]
Body(b, body) == [b EXCEPT !.body = Some(body)]

\* The query parameters as serde writes them: a bool as true / false, the
\* collection of filter_path joined by commas, a field that is None left out.
BoolString(v) == IF v THEN "true" ELSE "false"
SerializeCollQs(coll) == Join(coll, ",")
OptionBool(o) == IF IsSome(o) THEN Some(BoolString(Unwrap(o))) ELSE None
OptionColl(o) == IF IsSome(o) THEN Some(SerializeCollQs(Unwrap(o))) ELSE None

QueryParams(b) ==
    LET fields == << <<"error_trace", OptionBool(b.error_trace)>>,
                     <<"filter_path", OptionColl(b.filter_path)>>,
                     <<"human", OptionBool(b.human)>>,
                     <<"pretty", OptionBool(b.pretty)>>,
                     <<"source", b.source>> >>
        set == SelectSeq(fields, LAMBDA f : IsSome(f[2]))
    IN  [n \in 1..Len(set) |-> <<set[n][1], Unwrap(set[n][2])>>]

\* What send hands to Elasticsearch::send.
Send(b) ==
    [method |-> Method(b.api), path |-> Url(b.api, b.parts), headers |-> b.headers,
     query |-> QueryParams(b), body |-> IF HasBody(b.api) THEN b.body ELSE None]

Bools == {TRUE, FALSE}
FilterPaths == {<<"took", "hits.total">>}
Sources == {"{}"}
Bodies == {"{}", "[1]"}
Headers == {<<"x-opaque-id", "1">>, <<"x-opaque-id", "2">>, <<"accept", "text/plain">>}

Called(name, arg) == [call |-> name, arg |-> arg]

InitSlm ==
    /\ env = ValidEnv
    /\ pc = "slm"
    /\ config = Some(ValidConfig)
    /\ exit = NoResult
    /\ catalog = <<>>
    /\ op = 0
    /\ action = None
    /\ stats = <<>>
    /\ rpc = "none"
    /\ i = 0
    /\ errors = <<>>
    /\ labels = NoLabels
    /\ start = 0
    /\ run_result = NoResult
    /\ calls = <<>>
    /\ history = <<>>
    /\ runs = 0
    /\ runtimes = 0
    /\ output = <<>>
    /\ previous = <<>>
    /\ source = None
    /\ builder = None
    /\ request = None
    /\ trail = <<>>

\* client.slm().delete_lifecycle(parts), .., client.slm().stop()
BuilderNew ==
    /\ pc = "slm"
    /\ builder = None
    /\ \E api \in SlmApis : \E parts \in PartsOf(api) :
        /\ builder' = Some(BuilderOf(api, parts))
        /\ trail' = <<Called(api, parts)>>
    /\ pc' = "building"
    /\ UNCHANGED <<env, config, exit, catalog, op, action, stats, rpc, i, errors, labels,
                   start, run_result, calls, history, runs, runtimes, output, previous,
                   source, request>>

\* A setter is called on the builder and returns the builder.
Chained(b, name, arg) ==
    /\ builder' = Some(b)
    /\ trail' = Append(trail, Called(name, arg))
    /\ UNCHANGED <<env, pc, config, exit, catalog, op, action, stats, rpc, i, errors,
                   labels, start, run_result, calls, history, runs, runtimes, output,
                   previous, source, request>>

CanChain == pc = "building" /\ IsSome(builder) /\ Len(trail) <= MaxCalls

CallErrorTrace ==
    /\ CanChain
    /\ \E v \in Bools : Chained(ErrorTrace(Unwrap(builder), v), "error_trace", v)

CallFilterPath ==
    /\ CanChain
    /\ \E v \in FilterPaths : Chained(FilterPath(Unwrap(builder), v), "filter_path", v)

CallHeader ==
    /\ CanChain
    /\ \E h \in Headers : Chained(Header(Unwrap(builder), h[1], h[2]), "header", h)

CallHuman ==
    /\ CanChain
    /\ \E v \in Bools : Chained(Human(Unwrap(builder), v), "human", v)

CallPretty ==
    /\ CanChain
    /\ \E v \in Bools : Chained(Pretty(Unwrap(builder), v), "pretty", v)

CallSource ==
    /\ CanChain
    /\ \E v \in Sources : Chained(Source(Unwrap(builder), v), "source", v)

CallBody ==
    /\ CanChain
    /\ HasBody(Unwrap(builder).api)
    /\ \E v \in Bodies : Chained(Body(Unwrap(builder), v), "body", v)

\* send consumes the builder.
CallSend ==
    /\ pc = "building"
    /\ IsSome(builder)
    /\ request' = Some(Send(Unwrap(builder)))
    /\ builder' = None
    /\ pc' = "sent"
    /\ UNCHANGED <<env, config, exit, catalog, op, action, stats, rpc, i, errors, labels,
                   start, run_result, calls, history, runs, runtimes, output, previous,
                   source, trail>>

NextSlm ==
    \/ BuilderNew
    \/ CallErrorTrace
    \/ CallFilterPath
    \/ CallHeader
    \/ CallHuman
    \/ CallPretty
    \/ CallSource
    \/ CallBody
    \/ CallSend

SpecSlm == InitSlm /\ [][NextSlm]_vars

-----------------------------------------------------------------------------
(* Observations on the history of hook invocations *)

TheAction == Unwrap(action)

CallsIn(phase) == {n \in DOMAIN calls : calls[n].phase = phase}
ReturnedIn(phase) == {n \in CallsIn(phase) : calls[n].returned}

\* The hook answered with a transport error or with a status outside 200..299.
Failed(c) == c.returned /\ (~c.ret.ok \/ c.ret.status \notin 200..299)

SetupFailed == \E n \in CallsIn("setup") : calls[n].returned /\ ~calls[n].ret.ok
LoopFailures == {n \in CallsIn("warmup") \cup CallsIn("measure") : Failed(calls[n])}

\* The invocation of the given phase that was made with index n.
CallAt(phase, n) == calls[CHOOSE m \in CallsIn(phase) : calls[m].i = n]

-----------------------------------------------------------------------------
(* Properties of Runner::run on a fresh Runner (SpecRunner) *)

\* C1: when the setup hook is absent or succeeds, a returned run has invoked the
\* measurement hook exactly warmups + repetitions times and left exactly
\* repetitions StatsRecords, whatever the invocations returned.
C1_InvocationsAndStats ==
    (rpc = "returned" /\ ~SetupFailed) =>
        /\ Cardinality(CallsIn("warmup") \cup CallsIn("measure"))
              = TheAction.warmups + TheAction.repetitions
        /\ \A n \in CallsIn("warmup") \cup CallsIn("measure") :
              calls[n].hook = TheAction.run.name /\ calls[n].returned
        /\ Len(stats) = TheAction.repetitions

C1_Witness ==
    /\ rpc = "returned"
    /\ TheAction.warmups = 2 /\ TheAction.repetitions = 2
    /\ IsSome(TheAction.setup) /\ ~SetupFailed
    /\ ~CallAt("warmup", 0).ret.ok
    /\ CallAt("warmup", 1).ret.status = 404
    /\ ~CallAt("measure", 0).ret.ok
    /\ CallAt("measure", 1).ret.status = 404
    /\ Len(stats) = 2

\* C2: in every state the number of StatsRecords is the number of measured
\* repetitions completed so far: none before the measured loop, i inside it.
C2_StatsCountMeasured ==
    /\ Len(stats) = Cardinality(ReturnedIn("measure"))
    /\ rpc \in {"idle", "setup", "in_setup", "warmup", "in_warmup"} => Len(stats) = 0
    /\ rpc \in {"measure", "in_measure"} => Len(stats) = i

C2_Witness ==
    /\ rpc = "in_measure"
    /\ i = 1
    /\ Len(stats) = 1
    /\ TheAction.warmups >= 1
    /\ Failed(CallAt("warmup", 0))
    /\ Failed(CallAt("measure", 0))

\* C3 as stated: run returns success iff no error was recorded in the two loops.
C3_SuccessIffNoLoopError ==
    rpc = "returned" => (run_result.tag = "Ok" <=> LoopFailures = {})

\* C3 (amended): run returns success iff the setup hook did not fail and no
\* warmup or measured invocation failed; either way the StatsRecords of the
\* completed repetitions are held by the Runner.
C3_SuccessIffNoFailure ==
    rpc = "returned" =>
        /\ run_result.tag \in {"Ok", "Err"}
        /\ run_result.tag = "Ok" <=> (~SetupFailed /\ LoopFailures = {})
        /\ Len(stats) = Cardinality(CallsIn("measure"))

C3_Witness ==
    /\ rpc = "returned"
    /\ run_result.tag = "Ok"
    /\ TheAction.warmups = 1 /\ TheAction.repetitions = 2
    /\ Len(stats) = 2
    /\ \A n \in 1..2 : stats[n].outcome = "success"

\* The text the hook's answer contributes to the error list.
FailureText(c) ==
    IF c.ret.ok THEN "status code " \o ToString(c.ret.status) ELSE c.ret.err

RECURSIVE FailuresUpTo(_, _, _)
\* The messages of the failed invocations 0..n-1 of a phase, by increasing index.
FailuresUpTo(phase, tag, n) ==
    IF n = 0 THEN <<>>
    ELSE LET c == CallAt(phase, n - 1)
             rest == FailuresUpTo(phase, tag, n - 1)
         IN  IF Failed(c)
             THEN Append(rest, tag \o " " \o ToString(n - 1) \o ": " \o FailureText(c))
             ELSE rest

\* C4: when a warmup or measured invocation failed, run returns a Run error whose
\* list is every failure message, warmups first by increasing index, then the
\* measured repetitions by increasing index.
C4_RunErrorInOrder ==
    (rpc = "returned" /\ LoopFailures # {}) =>
        /\ run_result.tag = "Err"
        /\ run_result.error.kind = "Run"
        /\ run_result.error.errs =
              FailuresUpTo("warmup", "warmup", TheAction.warmups)
                 \o FailuresUpTo("measure", "run", TheAction.repetitions)
        /\ Len(run_result.error.errs) = Cardinality(LoopFailures)

C4_Witness ==
    /\ rpc = "returned"
    /\ run_result.tag = "Err"
    /\ run_result.error.errs =
          << "warmup 0: connection refused", "warmup 1: status code 404",
             "run 0: status code 404", "run 1: connection refused" >>

\* C5: once the setup hook has failed, run has returned that failure as an error
\* of kind Response, the measurement hook was never invoked and stats is empty.
C5_SetupFailureAborts ==
    SetupFailed =>
        /\ rpc = "returned"
        /\ run_result.tag = "Err"
        /\ run_result.error.kind = "Response"
        /\ run_result.error.msg = calls[1].ret.err
        /\ CallsIn("warmup") \cup CallsIn("measure") = {}
        /\ Len(calls) = 1
        /\ stats = <<>>

C5_Witness ==
    /\ SetupFailed
    /\ TheAction.warmups = 2 /\ TheAction.repetitions = 2
    /\ rpc = "returned"

\* C6: the outcome of every StatsRecord is "success" exactly when the hook
\* returned a response with a status in 200..299, and "failure" otherwise; a
\* transport error gives "failure" without a status code.
C6_OutcomeClassification ==
    \A n \in 1..Len(stats) :
        LET c == CallAt("measure", n - 1) IN
        /\ stats[n].outcome \in {"success", "failure"}
        /\ stats[n].outcome = "success" <=> (c.ret.ok /\ c.ret.status \in 200..299)
        /\ ~c.ret.ok => stats[n].outcome = "failure" /\ stats[n].status_code = None

C6_Witness ==
    /\ Len(stats) = 2
    /\ stats[1].outcome = "failure" /\ ~CallAt("measure", 0).ret.ok
    /\ stats[2].outcome = "success" /\ CallAt("measure", 1).ret.status = 201

\* C7: a StatsRecord carries a status code exactly when the hook returned a
\* response, and then it is that response's status, also for a non-success one.
C7_StatusCodePresence ==
    \A n \in 1..Len(stats) :
        LET c == CallAt("measure", n - 1) IN
        /\ IsSome(stats[n].status_code) <=> c.ret.ok
        /\ c.ret.ok => stats[n].status_code = Some(c.ret.status)

C7_Witness ==
    /\ Len(stats) = 2
    /\ stats[1].status_code = Some(404)
    /\ stats[2].status_code = None

-----------------------------------------------------------------------------
(* Properties of the main loop (Spec) *)

\* needle is hay[a..b] for some a, b.
Substring(needle, hay) ==
    \E a \in 1..(Len(hay) + 1), b \in 0..Len(hay) : SubSeq(hay, a, b) = needle

HooksOfFullRun(a) == (IF IsSome(a.setup) THEN 1 ELSE 0) + a.warmups + a.repetitions

\* C8: an Action is skipped exactly when its name is a substring of FILTER; a
\* skipped Action has no Runner::run call, no hook invocation and no printed line,
\* the others run in full (or up to a failed setup); with FILTER unset or empty
\* nothing is skipped.
C8_SkippedIffFiltered ==
    \A n \in 1..Len(catalog) :
        LET a == catalog[n] IN
        /\ n > op => history[n] = NoHistory
        /\ (n < op /\ Substring(a.action, FILTER)) => history[n] = NoHistory
        /\ (n < op /\ ~Substring(a.action, FILTER)) =>
              /\ history[n].runs = 1
              /\ \/ history[n].hooks = HooksOfFullRun(a) /\ history[n].lines = a.repetitions
                 \/ IsSome(a.setup) /\ history[n].hooks = 1 /\ history[n].lines = 0
        /\ (n = op - 1 /\ pc = "loop" /\ Substring(a.action, FILTER)) =>
              output = <<>> /\ stats = <<>> /\ action = None
        /\ (n < op /\ (~env["FILTER"].ok \/ env["FILTER"].v = "")) => history[n].runs = 1

C8_Witness ==
    /\ pc = "exited"
    /\ exit.tag = "Ok"
    /\ env["FILTER"] = Ok("index")
    /\ catalog[2].repetitions = 1 /\ catalog[2].warmups = 1
    /\ history[2] = NoHistory
    /\ history[1].runs = 1 /\ history[1].hooks = 3 /\ history[1].lines = 1

-----------------------------------------------------------------------------
(* Properties of Config::new (SpecConfig) *)

StartsWith(s, prefix) == Len(s) >= Len(prefix) /\ SubSeq(s, 1, Len(prefix)) = prefix

NewlinesIn(s) == {p \in 1..Len(s) : SubSeq(s, p, p) = "\n"}

\* The lines of a text: the pieces between its newlines.
Lines(s) ==
    LET nl == NewlinesIn(s)
        pos(j) == CHOOSE p \in nl : Cardinality({q \in nl : q < p}) = j - 1
    IN  [j \in 1..(Cardinality(nl) + 1) |->
            SubSeq(s, IF j = 1 THEN 1 ELSE pos(j - 1) + 1,
                      IF j = Cardinality(nl) + 1 THEN Len(s) ELSE pos(j) - 1)]

AbsentOrEmpty(k) == env[k] = NotPresent \/ env[k] = Ok("")
Violated(k) == ~env[k].ok \/ env[k].v = ""

\* The violated inputs, in the order of env_keys.
ViolatedKeys == SelectSeq(env_keys, Violated)

LinesNaming(lines, k) == {j \in DOMAIN lines : StartsWith(lines[j], k \o " ")}

\* C9 as stated: with K >= 1 inputs absent or empty, Config::new fails with a
\* message of exactly K lines.
C9_LinePerAbsentOrEmpty ==
    LET K == Cardinality({k \in RequiredKeys : AbsentOrEmpty(k)}) IN
    (pc = "config_done" /\ K >= 1) =>
        /\ exit.tag = "Err"
        /\ Len(Lines(exit.error.msg)) = K

\* C9 (amended): with K >= 1 inputs absent, not valid unicode or empty,
\* Config::new fails with a Config error of exactly K lines, one per violated
\* input and naming it, and none for the other inputs.
C9_LinePerViolation ==
    LET K == Cardinality({k \in RequiredKeys : Violated(k)}) IN
    (pc = "config_done" /\ K >= 1) =>
        /\ exit.tag = "Err"
        /\ exit.error.kind = "Config"
        /\ config = None
        /\ LET lines == Lines(exit.error.msg) IN
           /\ Len(lines) = K
           /\ \A k \in RequiredKeys :
                 Cardinality(LinesNaming(lines, k)) = IF Violated(k) THEN 1 ELSE 0

C9_Witness ==
    /\ pc = "config_done"
    /\ \A k \in RequiredKeys : env[k] = NotPresent
    /\ exit.tag = "Err"
    /\ Len(Lines(exit.error.msg)) = 11

\* C10: the lines of the Config error follow the order of env_keys, whatever
\* inputs are violated: line j names the j-th violated input.
C10_LinesInKeyOrder ==
    (pc = "config_done" /\ ViolatedKeys # <<>>) =>
        /\ exit.tag = "Err"
        /\ exit.error.kind = "Config"
        /\ LET lines == Lines(exit.error.msg) IN
           /\ Len(lines) = Len(ViolatedKeys)
           /\ \A j \in DOMAIN lines : StartsWith(lines[j], ViolatedKeys[j] \o " ")

C10_Witness ==
    /\ pc = "config_done"
    /\ exit.tag = "Err"
    /\ exit.error.msg =
          "BUILD_ID environment variable not found\nTARGET_SERVICE_OS_FAMILY environment variable is empty"

\* C11: Config::new returns a Config only if each of the 11 required inputs is
\* present and non-empty; as soon as one input is absent or empty it returns an
\* error and no Config (hence neither client) is constructed.
C11_ConfigOnlyIfAllPresent ==
    pc = "config_done" =>
        /\ IsSome(config) <=> exit.tag = "Ok"
        /\ IsSome(config) => \A k \in RequiredKeys : env[k].ok /\ env[k].v # ""
        /\ (\E k \in RequiredKeys : AbsentOrEmpty(k)) =>
               /\ config = None
               /\ exit.tag = "Err"
               /\ exit.error.kind = "Config"

C11_Witness ==
    /\ pc = "config_done"
    /\ env["ELASTICSEARCH_REPORT_URL"] = Ok("")
    /\ \A k \in RequiredKeys \ {"ELASTICSEARCH_REPORT_URL"} : env[k] = Ok(GoodValue[k])
    /\ config = None
    /\ exit.tag = "Err"

\* C12: once Config::new has returned a Config, main can only end with Ok(()),
\* whatever Run errors and setup failures the Actions reported; the one error main
\* returns is the Config error of the start, and when main ends without success no
\* Action was run: no setup hook and no measurement hook was invoked.
C12_OnlyConfigErrorIsFatal ==
    /\ (pc = "exited" /\ IsSome(config)) => exit = ResultOk
    /\ (pc # "exited") => exit = NoResult
    /\ exit.tag = "Err" => exit.error.kind = "Config"
    /\ (pc = "exited" /\ exit # ResultOk) =>
           /\ config = None
           /\ history = <<>>
           /\ calls = <<>>
           /\ runs = 0

C12_Witness ==
    /\ pc = "exited"
    /\ exit = ResultOk
    /\ history[1].result = "Run"
    /\ history[2].result = "Response"

RunAndPrinted(n) ==
    IF n \in DOMAIN history THEN history[n].runs = 1 /\ history[n].printed ELSE FALSE

\* main has ended and every entry of the catalog was run unless it was filtered.
AllRun ==
    IF pc = "exited" /\ Len(catalog) = 2
    THEN \A n \in 1..2 : Substring(catalog[n].action, FILTER) \/ RunAndPrinted(n)
    ELSE FALSE

\* C13: every Action of the catalog whose name FILTER does not contain is
\* eventually run and its results printed, also when the Action before it ended
\* with a Run error or was aborted by a failing setup hook.
C13_EveryActionEventuallyRun == <>AllRun

C13_Witness ==
    /\ pc = "loop"
    /\ history[1].result = "Response"
    /\ history[2].runs = 1
    /\ history[2].printed
    /\ history[2].result = "Run"

\* The names of the hooks of an Action.
HookNames(a) == {a.run.name} \cup (IF IsSome(a.setup) THEN {Unwrap(a.setup).name} ELSE {})

\* Entry m of the catalog is over: it was skipped, or its run has returned and
\* its statistics were printed.
Over(m) == Substring(catalog[m].action, FILTER) \/ history[m].printed

\* C14: the Actions are executed one after another in the order of the catalog,
\* ping before index, without overlap: while a Runner is at work every hook
\* invocation is one of the current entry of the catalog, and an entry has a run or
\* a hook invocation only after every entry before it is over (its run has returned
\* and its statistics were printed).
C14_CatalogOrderNoOverlap ==
    /\ catalog # <<>> => catalog[1].action = "ping" /\ catalog[2].action = "index"
    /\ calls # <<>> =>
           /\ pc = "running"
           /\ Len(calls) = history[op].hooks
           /\ \A k \in DOMAIN calls : calls[k].hook \in HookNames(catalog[op])
    /\ \A n \in DOMAIN history :
           (history[n].runs > 0 \/ history[n].hooks > 0) =>
               /\ n <= op
               /\ history[n].runs = 1
               /\ \A m \in 1..(n - 1) : Over(m)
               /\ n < op => history[n].printed

C14_Witness ==
    /\ pc = "running"
    /\ op = 2
    /\ history[1].printed
    /\ history[1].hooks = 3
    /\ Len(calls) = 1
    /\ calls[1].hook = "index_run"
    /\ ~calls[1].returned

Rank(phase) == CASE phase = "setup" -> 0 [] phase = "warmup" -> 1 [] OTHER -> 2

\* C15: within one run the invocations are strictly sequential (an invocation
\* starts only after the one before it has returned), every warmup invocation
\* has returned before the first measured invocation starts, and in each of the
\* two loops the hook receives the indices 0, 1, 2, ... in this order, the
\* measured loop starting again at 0.
C15_LoopOrder ==
    /\ \A k \in DOMAIN calls :
           /\ k < Len(calls) => calls[k].returned
           /\ \A m \in 1..(k - 1) : Rank(calls[m].phase) <= Rank(calls[k].phase)
           /\ calls[k].phase \in {"warmup", "measure"} =>
                  calls[k].i = Cardinality({m \in 1..(k - 1) : calls[m].phase = calls[k].phase})
    /\ CallsIn("measure") # {} =>
           Cardinality(ReturnedIn("warmup")) = TheAction.warmups

C15_Witness ==
    /\ rpc = "in_measure"
    /\ Len(calls) = 4
    /\ [k \in 1..4 |-> <<calls[k].phase, calls[k].i>>] =
          << <<"warmup", 0>>, <<"warmup", 1>>, <<"measure", 0>>, <<"measure", 1>> >>
    /\ ~calls[4].returned

EndsWith(s, suffix) ==
    Len(s) >= Len(suffix) /\ SubSeq(s, Len(s) - Len(suffix) + 1, Len(s)) = suffix

\* The lines of the given output that have the form "<name>: ...ns".
DurationLines(out, name) ==
    LET IsDurationLine(l) == StartsWith(l, name \o ": ") /\ EndsWith(l, "ns")
    IN  SelectSeq(out, IsDurationLine)

\* What an iteration of the loop of main must have printed when it ends.
IterationPrints ==
    LET name == catalog[op].action IN
    IF pc = "loop"
    THEN \* the Action is skipped
         /\ output' = <<>>
         /\ history'[op] = NoHistory
    ELSE LET lines == DurationLines(output', name)
             aborted == run_result.tag = "Err" /\ run_result.error.kind = "Response"
         IN  IF aborted
             THEN lines = <<>> /\ history'[op].lines = 0
             ELSE /\ Len(lines) = TheAction.repetitions
                  /\ Len(lines) = Len(stats)
                  /\ history'[op].lines = Len(lines)
                  /\ \A n \in DOMAIN lines :
                         lines[n] = name \o ": " \o ToString(stats[n].duration) \o "ns"

\* C16: an iteration of the loop of main that runs its Action to the end prints
\* exactly one line "<action-name>: <duration-in-nanoseconds>ns" per measured
\* repetition, in the order of the repetitions; an iteration that skips its
\* Action prints nothing, and one whose Action was aborted by a failing setup
\* hook prints no duration line.
C16_LinePerRepetition ==
    [][(pc \in {"loop", "running"} /\ op' = op + 1) => IterationPrints]_vars

C16_Witness ==
    /\ pc = "loop"
    /\ op = 2
    /\ history[1].result = "Ok"
    /\ output = <<"ping: 1500ns", "ping: 0ns">>

\* C17: when the same Action is run twice, each time by a fresh Runner and with
\* hooks that always succeed, the two runs leave stats of the same length, and
\* no recorded duration is negative.
C17_SameLengthTwice ==
    /\ \A n \in DOMAIN stats : stats[n].duration >= 0
    /\ \A n \in DOMAIN previous : previous[n].duration >= 0
    /\ (op = 2 /\ rpc = "returned") =>
           /\ run_result = ResultOk
           /\ Len(stats) = Len(previous)

C17_Witness ==
    /\ op = 2
    /\ rpc = "returned"
    /\ Len(previous) = 2
    /\ Len(stats) = 2
    /\ previous[1].duration # stats[1].duration

\* What the return of a warmup invocation does: a failed one appends one message
\* "warmup i: ..." with the index i it was invoked with, a successful one
\* appends nothing; either way no record is pushed and the loop goes on to i + 1.
WarmupReturns ==
    LET c == calls'[Len(calls')] IN
    /\ c.phase = "warmup" /\ c.returned /\ c.i = i
    /\ rpc' = "warmup"
    /\ i' = i + 1
    /\ stats' = stats
    /\ IF Failed(c)
       THEN /\ Len(errors') = Len(errors) + 1
            /\ SubSeq(errors', 1, Len(errors)) = errors
            /\ StartsWith(errors'[Len(errors')], "warmup " \o ToString(i) \o ": ")
       ELSE errors' = errors

\* A run that was not aborted by its setup hook made all its invocations.
AllInvoked ==
    (rpc = "returned" /\ ~SetupFailed) =>
        /\ Cardinality(ReturnedIn("warmup")) = TheAction.warmups
        /\ Cardinality(ReturnedIn("measure")) = TheAction.repetitions

\* C18: a warmup invocation that fails, by a transport error or by a response
\* with a non-success status, appends exactly one message tagged "warmup i: "
\* with its 0-based index i, and the run goes on: all remaining warmups and all
\* measured repetitions are still executed.
C18_WarmupFailureRecorded ==
    /\ [][rpc = "in_warmup" => WarmupReturns]_vars
    /\ []AllInvoked

C18_Witness ==
    /\ rpc = "returned"
    /\ TheAction.warmups = 2
    /\ TheAction.repetitions = 2
    /\ ~IsSome(TheAction.setup)
    /\ Len(calls) = 4
    /\ calls[1].ret = Response(404)
    /\ calls[2].ret = Response(200)
    /\ errors = <<"warmup 0: status code 404">>

\* The messages of the given list that are tagged "run ".
RunMessages(errs) ==
    LET IsRunMessage(e) == StartsWith(e, "run ")
    IN  SelectSeq(errs, IsRunMessage)

FailureRecords == {n \in DOMAIN stats : stats[n].outcome = "failure"}

\* C19: the measured repetition i has a message tagged "run i: " in the error
\* list exactly when its record has the outcome "failure"; so there are as many
\* "run" messages, also in the Run error that run returns, as records with the
\* outcome "failure", and a successful repetition appends nothing.
C19_RunMessageIffFailure ==
    /\ \A n \in DOMAIN stats :
           stats[n].outcome = "failure" <=>
               \E m \in DOMAIN errors :
                   StartsWith(errors[m], "run " \o ToString(n - 1) \o ": ")
    /\ Len(RunMessages(errors)) = Cardinality(FailureRecords)
    /\ (rpc = "returned" /\ ~SetupFailed) =>
           /\ Len(RunMessages(run_result.error.errs)) = Cardinality(FailureRecords)
           /\ run_result.error.errs = errors

C19_Witness ==
    /\ rpc = "returned"
    /\ TheAction.warmups = 0
    /\ Len(stats) = 2
    /\ stats[1].outcome = "failure"
    /\ stats[2].outcome = "success"
    /\ run_result = ResultErr(ErrorRun(<<"run 0: connection refused">>))

\* C20: a run of an Action that defines a setup hook invokes it exactly once,
\* and this invocation comes first: it has returned before the first warmup and
\* the first measured invocation; a run of an Action without setup hook makes no
\* setup invocation and goes directly to the warmup loop.
C20_SetupOnceFirst ==
    IF IsSome(TheAction.setup)
    THEN /\ Cardinality(CallsIn("setup")) =
               (IF rpc \in {"idle", "setup", "panicked"} THEN 0 ELSE 1)
         /\ calls # <<>> =>
               /\ calls[1].phase = "setup"
               /\ calls[1].hook = Unwrap(TheAction.setup).name
               /\ Len(calls) > 1 => calls[1].returned /\ calls[1].ret.ok
    ELSE /\ CallsIn("setup") = {}
         /\ (calls # <<>> /\ TheAction.warmups > 0) =>
               calls[1].phase = "warmup" /\ calls[1].i = 0

C20_Witness ==
    /\ IsSome(TheAction.setup)
    /\ rpc = "in_measure"
    /\ Len(calls) = 3
    /\ [k \in 1..3 |-> calls[k].phase] = <<"setup", "warmup", "measure">>

\* C21: the labels of a run are: for the category, the override of the Action
\* when it has one and otherwise the value of CLIENT_BENCHMARK_CATEGORY, or the
\* empty text when that variable cannot be read; for the environment, the
\* override of the Action when it has one and otherwise the environment of the
\* Config, which is the value of CLIENT_BENCHMARK_ENVIRONMENT.
C21_LabelsResolved ==
    rpc # "idle" =>
        /\ labels.category =
              (IF TheAction.category # None THEN TheAction.category[1]
               ELSE IF env["CLIENT_BENCHMARK_CATEGORY"].ok
                    THEN env["CLIENT_BENCHMARK_CATEGORY"].v
                    ELSE "")
        /\ labels.environment =
              (IF TheAction.environment # None THEN TheAction.environment[1]
               ELSE env["CLIENT_BENCHMARK_ENVIRONMENT"].v)

C21_Witness ==
    /\ rpc = "returned"
    /\ TheAction.category = None
    /\ TheAction.environment = Some("staging")
    /\ env["CLIENT_BENCHMARK_CATEGORY"] = Ok("core")
    /\ labels.category = "core"
    /\ labels.environment = "staging"

\* The messages of the two violations of the input k.
AbsentMessage(k) == k \o " environment variable not found"
EmptyMessage(k) == k \o " environment variable is empty"

\* C22: Config::new reports an absent input and an input that is present but
\* empty with two different messages, each naming the input: the error has the
\* line of the absent kind for k exactly when k is absent and the line of the
\* empty kind for k exactly when k is empty, so the message tells which of the
\* two violations occurred for which input.
C22_AbsentAndEmptyDistinct ==
    pc = "config_done" =>
        LET lines == IF exit.tag = "Err" THEN Lines(exit.error.msg) ELSE <<>>
            Has(l) == \E j \in DOMAIN lines : lines[j] = l
        IN  \A k \in RequiredKeys :
               /\ AbsentMessage(k) # EmptyMessage(k)
               /\ env[k] = NotPresent <=> Has(AbsentMessage(k))
               /\ env[k] = Ok("") <=> Has(EmptyMessage(k))

C22_Witness ==
    /\ pc = "config_done"
    /\ exit.tag = "Err"
    /\ env["CLIENT_COMMIT"] = NotPresent
    /\ env["CLIENT_BRANCH"] = Ok("")
    /\ Lines(exit.error.msg) =
          <<"CLIENT_BRANCH environment variable is empty",
            "CLIENT_COMMIT environment variable not found">>

AllPresent == \A k \in RequiredKeys : env[k].ok /\ env[k].v # ""

\* C23: in every environment Config::new either returns a Config or returns an
\* error of kind Config, and it returns a Config whenever the 11 required inputs
\* are all present and non-empty; it never ends in another way, such as a panic
\* while the two clients are built from the URL inputs.
C23_ConfigOrConfigError ==
    pc = "config_done" =>
        /\ \/ exit.tag = "Ok" /\ IsSome(config)
           \/ exit.tag = "Err" /\ exit.error.kind = "Config" /\ config = None
        /\ AllPresent => exit.tag = "Ok"

\* C24: the Config that Config::new returns holds each validated value in the
\* field of its variable: build_id, environment, service type, name and version,
\* git commit and branch, OS family; the target and the runner carry the same
\* service and OS; runner_client is built from ELASTICSEARCH_TARGET_URL and
\* report_client from ELASTICSEARCH_REPORT_URL.
C24_FieldsCopied ==
    (pc = "config_done" /\ exit.tag = "Ok") =>
        LET c == Unwrap(config)
            Value(k) == env[k].v
        IN  /\ c.build_id = Value("BUILD_ID")
            /\ c.environment = Value("CLIENT_BENCHMARK_ENVIRONMENT")
            /\ c.target.service.ty = Value("TARGET_SERVICE_TYPE")
            /\ c.target.service.name = Value("TARGET_SERVICE_NAME")
            /\ c.target.service.version = Value("TARGET_SERVICE_VERSION")
            /\ c.target.service.git.commit = Value("CLIENT_COMMIT")
            /\ c.target.service.git.branch = Value("CLIENT_BRANCH")
            /\ c.target.os.family = Value("TARGET_SERVICE_OS_FAMILY")
            /\ c.runner.service = c.target.service
            /\ c.runner.os = c.target.os
            /\ c.runner_client = SingleNode(Value("ELASTICSEARCH_TARGET_URL")).v
            /\ c.report_client = SingleNode(Value("ELASTICSEARCH_REPORT_URL")).v
            /\ c.runner_client = Value("ELASTICSEARCH_TARGET_URL")

C24_Witness ==
    /\ pc = "config_done"
    /\ exit.tag = "Ok"
    /\ Unwrap(config).runner_client = "http://target:9200-2"
    /\ Unwrap(config).report_client = "http://report:9200"
    /\ Unwrap(config).target.service.git = [commit |-> "abc123-2", branch |-> "master"]

\* C25: an error of kind Response keeps the underlying error as its cause:
\* source returns it and the error displays as the underlying error does; errors
\* of kind Config and Run have no cause; and an error of kind Run displays its
\* messages joined by newlines, in the order of the list.
C25_SourceAndDisplay ==
    pc = "asked" =>
        LET e == exit.error IN
        /\ e.kind = "Response" => source = Some(errors[1]) /\ output = <<errors[1]>>
        /\ e.kind = "Config" => source = None /\ output = <<errors[1]>>
        /\ e.kind = "Run" =>
               /\ source = None
               /\ IF errors = <<>> THEN output = <<"">>
                  ELSE Lines(output[1]) = errors

C25_Witness ==
    /\ pc = "asked"
    /\ exit.error.kind = "Response"
    /\ source = Some("connection refused")
    /\ output = <<"connection refused">>

\* The last hook invocation has not returned yet.
Outstanding == calls # <<>> /\ ~calls[Len(calls)].returned

\* C26: there is no timeout and no cancellation: while a setup or measurement
\* invocation has not returned, the only step the program can take is the return
\* of that invocation; so if it never returns, no later invocation of the Action
\* starts, no record is appended to stats, and no later Action of the catalog
\* starts.
C26_NoTimeout ==
    [][Outstanding =>
          /\ Len(calls') = Len(calls)
          /\ calls'[Len(calls)].returned
          /\ SubSeq(calls', 1, Len(calls) - 1) = SubSeq(calls, 1, Len(calls) - 1)
          /\ op' = op
          /\ pc' = pc
          /\ action' = action
          /\ history' = history]_vars

C26_Witness ==
    /\ pc = "running"
    /\ op = 1
    /\ rpc = "in_measure"
    /\ Outstanding
    /\ Len(calls) = 3
    /\ Len(stats) = 0
    /\ history[2] = NoHistory

\* The number of Runner::run calls made for the entries 1..n of the catalog.
RunsUpTo(n) == IF n >= 2 THEN history[1].runs + history[2].runs
               ELSE IF n = 1 THEN history[1].runs ELSE 0

\* C27: every run constructs a Runtime of its own: the setup hook, the warmups
\* and the measured repetitions of one run all receive that same Runtime, it is
\* a new one (neither the Runtime of main nor that of an earlier run), and no
\* Runtime is handed to the hooks of two different Actions.
C27_RuntimePerAction ==
    /\ \A k \in DOMAIN calls :
           /\ calls[k].runtime = labels.runtime
           /\ calls[k].runtime = history[op].runtime
    /\ \A n \in DOMAIN history :
           history[n].runtime # 0 =>
               /\ history[n].runtime = 1 + RunsUpTo(n)
               /\ history[n].runtime <= runtimes
               /\ \A m \in DOMAIN history \ {n} : history[m].runtime # history[n].runtime
    /\ history # <<>> => runtimes = 1 + RunsUpTo(2)

C27_Witness ==
    /\ pc = "running"
    /\ op = 2
    /\ history[1].runtime = 2
    /\ history[2].runtime = 3
    /\ Len(calls) = 3
    /\ calls[1].phase = "setup"
    /\ calls[3].phase = "measure"

\* A step of Runner::run: the Runner exists before and after it and run is
\* entered, at work, or returning.
StepOfRun == rpc \notin {"none", "returned"} /\ rpc' # "none"

\* C28: Runner::run leaves the Config and the Action as they were (name,
\* overrides, warmups, repetitions, operations and hooks), and the catalog is the
\* same list after the execution of every Action; of the Config, the Action, the
\* catalog and the Runner, a step of run changes nothing but the Runner's stats.
C28_RunFrame ==
    /\ [][StepOfRun =>
              /\ config' = config
              /\ action' = action
              /\ catalog' = catalog
              /\ env' = env
              /\ op' = op /\ pc' = pc /\ exit' = exit /\ output' = output]_vars
    /\ [][pc # "main" => config' = config /\ catalog' = catalog]_vars
    /\ [](action # None => (action = Some(catalog[op]) /\ config = ConfigNew(env).config))

C28_Witness ==
    /\ pc = "running"
    /\ rpc = "returned"
    /\ op = 2
    /\ Len(stats) = 2
    /\ action = Some(catalog[2])
    /\ catalog[2].warmups = 1
    /\ IsSome(catalog[2].setup)

\* The record at position n of stats is that of the measured invocation n - 1.
RecordOfInvocation(n) ==
    /\ \E m \in CallsIn("measure") : calls[m].i = n - 1
    /\ LET c == CallAt("measure", n - 1) IN
       /\ c.returned
       /\ stats[n].outcome =
             (IF c.ret.ok /\ c.ret.status \in 200..299 THEN "success" ELSE "failure")
       /\ stats[n].status_code = (IF c.ret.ok THEN Some(c.ret.status) ELSE None)

\* C29: in a run on a fresh Runner the record at position i of stats (counted
\* from 0) is the record of the measured invocation with index i: it has the
\* outcome and the status code of that invocation; the records are appended in
\* the order of the repetitions and a record once appended is neither moved nor
\* overwritten.
C29_StatsInRepetitionOrder ==
    /\ [](/\ Len(stats) = Cardinality(ReturnedIn("measure"))
          /\ \A n \in DOMAIN stats : RecordOfInvocation(n))
    /\ [][/\ Len(stats') >= Len(stats)
          /\ SubSeq(stats', 1, Len(stats)) = stats]_vars

C29_Witness ==
    /\ rpc = "returned"
    /\ Len(stats) = 2
    /\ CallAt("measure", 0).ret = Response(404)
    /\ CallAt("measure", 1).ret = Failure("connection refused")
    /\ stats[1].status_code = Some(404)
    /\ stats[2].status_code = None

FailedWarmups == {n \in CallsIn("warmup") : Failed(calls[n])}
FailedMeasures == {n \in CallsIn("measure") : Failed(calls[n])}

\* C30: when at least one warmup invocation fails and every measured repetition
\* succeeds, run returns an error of kind Run that holds only messages tagged
\* "warmup", one per failed warmup, while every record of stats has the outcome
\* "success": a Run error does not imply a record with the outcome "failure".
C30_WarmupOnlyRunError ==
    (rpc = "returned" /\ ~SetupFailed /\ FailedWarmups # {} /\ FailedMeasures = {}) =>
        /\ run_result.tag = "Err"
        /\ run_result.error.kind = "Run"
        /\ Len(run_result.error.errs) = Cardinality(FailedWarmups)
        /\ \A m \in DOMAIN run_result.error.errs :
               StartsWith(run_result.error.errs[m], "warmup ")
        /\ Len(stats) = TheAction.repetitions
        /\ \A n \in DOMAIN stats : stats[n].outcome = "success"

C30_Witness ==
    /\ rpc = "returned"
    /\ TheAction.warmups = 1
    /\ Len(stats) = 2
    /\ \A n \in DOMAIN stats : stats[n].outcome = "success"
    /\ run_result = ResultErr(ErrorRun(<<"warmup 0: connection refused">>))

\* The setup hook has returned a response (of whatever status).
SetupResponded == \E n \in CallsIn("setup") : calls[n].returned /\ calls[n].ret.ok

\* C31: a response returned by the setup hook, whatever its status code, leaves no
\* message in errors and does not end the run: run goes on to the warmup and
\* measured loops, invokes the measurement hook warmups + repetitions times, and
\* its result depends on the loops only.  Only a transport error of setup aborts.
C31_SetupResponseProceeds ==
    /\ SetupResponded =>
        /\ rpc \in {"warmup", "in_warmup", "measure", "in_measure", "returned"}
        /\ Len(errors) = Cardinality(LoopFailures)
        /\ \A m \in DOMAIN errors :
               StartsWith(errors[m], "warmup ") \/ StartsWith(errors[m], "run ")
        /\ rpc = "returned" =>
               /\ Cardinality(CallsIn("warmup")) = TheAction.warmups
               /\ Cardinality(CallsIn("measure")) = TheAction.repetitions
               /\ Len(stats) = TheAction.repetitions
               /\ run_result = RunResult(errors)
               /\ (run_result.tag = "Ok") <=> (LoopFailures = {})
    /\ (rpc = "returned" /\ run_result.tag = "Err" /\ run_result.error.kind = "Response")
           => SetupFailed

C31_Witness ==
    /\ rpc = "returned"
    /\ \E n \in CallsIn("setup") : calls[n].returned /\ calls[n].ret = Response(404)
    /\ TheAction.warmups = 1 /\ TheAction.repetitions = 2
    /\ Cardinality(CallsIn("warmup")) = 1 /\ Cardinality(CallsIn("measure")) = 2
    /\ run_result = ResultOk

-----------------------------------------------------------------------------
(* Properties of the capacity computed at the start of run (SpecCapacity) *)

\* warmups + repetitions * operations as the mathematical integers give it,
\* compared without leaving the range of the model checker's integers.
CapacityInRange(a) ==
    LET operations == UnwrapOr(a.operations, 1) IN
    /\ ~MulOverflows(a.repetitions, operations)
    /\ ~AddOverflows(a.warmups, WrapMul(a.repetitions, operations))
    /\ WrapAdd(a.warmups, WrapMul(a.repetitions, operations)) >= 0

\* C32: for non-negative warmups and repetitions and any operations multiplier,
\* warmups + repetitions * operations stays within the i32 range and is not
\* negative, so run always reaches the setup phase.
C32_CapacityInRange ==
    (rpc # "idle" /\ TheAction.warmups >= 0 /\ TheAction.repetitions >= 0) =>
        /\ CapacityInRange(TheAction)
        /\ rpc = "setup"

-----------------------------------------------------------------------------
(* Properties of one Runner run several times (SpecSame) *)

\* The calls of run that the setup hook ended with a transport error.
AbortedRuns == Cardinality({n \in CallsIn("setup") : calls[n].returned /\ ~calls[n].ret.ok})

StatsOfCompletedRuns ==
    /\ runs = 0 => stats = <<>>
    /\ rpc = "returned" => Len(stats) = (runs - AbortedRuns) * TheAction.repetitions

\* A step of run starts it with an empty error list and the stats it found, and
\* no step removes or changes a record that stats holds already.
StatsKept ==
    /\ (rpc = "idle" /\ rpc' # "idle") => (errors' = <<>> /\ stats' = stats)
    /\ Len(stats') >= Len(stats)
    /\ SubSeq(stats', 1, Len(stats)) = stats

\* C33: calling run again on the same Runner does not reset stats: the error list
\* starts empty again while the records of the later call are appended after
\* those of the earlier ones, so that after n calls that ran their loops the
\* Runner holds n * repetitions records; a fresh Runner has none.
C33_StatsAccumulate == []StatsOfCompletedRuns /\ [][StatsKept]_vars

C33_Witness ==
    /\ runs = 2
    /\ rpc = "returned"
    /\ AbortedRuns = 0
    /\ TheAction.repetitions = 2
    /\ Len(stats) = 4
    /\ stats[1].outcome = "failure" /\ stats[2].outcome = "failure"
    /\ errors = <<>>
    /\ run_result = ResultOk

\* The states of a run in the order Created, Setup, Warmup, Measure, Done.
StateRank(p) ==
    CASE p = "idle" -> 0
      [] p \in {"setup", "in_setup"} -> 1
      [] p \in {"warmup", "in_warmup"} -> 2
      [] p \in {"measure", "in_measure"} -> 3
      [] p = "returned" -> 4
      [] OTHER -> 5

\* A step of run leads to a state of the run that is not an earlier one: run neither
\* goes back nor leaves the states Created, Setup, Warmup, Measure, Done.
InOrder == StateRank(rpc') >= StateRank(rpc) /\ StateRank(rpc') <= 4

\* C34: with hooks that return, run reaches Done for any finite warmups and
\* repetitions, passing through Created, (Setup), Warmup, Measure, Done without
\* going back: every step of run leads to one of these states, none to an
\* earlier one.
C34_RunReachesDone == [][InOrder]_vars

-----------------------------------------------------------------------------
(* Properties of the SLM request builders (SpecSlm) *)

\* The API and the parts the builder was created with.
BuiltApi == trail[1].call
BuiltParts == trail[1].arg

\* The argument of the last call of the given setter, if it was called.
CallsOf(name) == {n \in DOMAIN trail : trail[n].call = name}
LastArg(name) ==
    IF CallsOf(name) = {} THEN None
    ELSE Some(trail[CHOOSE n \in CallsOf(name) : \A m \in CallsOf(name) : m <= n].arg)

\* The headers inserted, each key with the value of its last insertion.
LastHeaders ==
    {trail[n].arg : n \in {n \in CallsOf("header") :
                              \A m \in CallsOf("header") :
                                  m > n => trail[m].arg[1] # trail[n].arg[1]}}

\* C35: the path a builder sends to is "/_slm/policy/" and the encoded id for
\* delete and put lifecycle, the same followed by "/_execute" for execute
\* lifecycle, "/_slm/policy" or "/_slm/policy/" and the encoded comma-joined ids
\* for get lifecycle, and a fixed path for the APIs without parts.
C35_UrlOfEachApi ==
    IsSome(request) =>
        LET path == Unwrap(request).path
            ids == BuiltParts.ids
        IN  CASE BuiltApi \in {"delete_lifecycle", "put_lifecycle"} ->
                    path = "/_slm/policy/" \o PercentEncode(ids[1])
              [] BuiltApi = "execute_lifecycle" ->
                    path = "/_slm/policy/" \o PercentEncode(ids[1]) \o "/_execute"
              [] BuiltApi = "get_lifecycle" ->
                    IF BuiltParts.kind = "None" THEN path = "/_slm/policy"
                    ELSE path = "/_slm/policy/" \o PercentEncode(Join(ids, ","))
              [] BuiltApi = "execute_retention" -> path = "/_slm/_execute_retention"
              [] BuiltApi = "get_stats" -> path = "/_slm/stats"
              [] BuiltApi = "get_status" -> path = "/_slm/status"
              [] BuiltApi = "start" -> path = "/_slm/start"
              [] BuiltApi = "stop" -> path = "/_slm/stop"

C35_Witness ==
    /\ IsSome(request)
    /\ BuiltApi = "execute_lifecycle"
    /\ BuiltParts = PolicyId(<<"a/b c">>)
    /\ Unwrap(request).path = "/_slm/policy/a%2Fb%20c/_execute"

\* C36: each builder sends with a fixed method (DELETE for delete_lifecycle, GET
\* for get_lifecycle, get_stats and get_status, PUT for execute_lifecycle and
\* put_lifecycle, POST for execute_retention, start and stop); the DELETE and GET
\* builders send no body, the others the body last given to body(), or none.
C36_MethodAndBody ==
    IsSome(request) =>
        LET r == Unwrap(request) IN
        /\ r.method = (CASE BuiltApi = "delete_lifecycle" -> "DELETE"
                         [] BuiltApi \in {"get_lifecycle", "get_stats", "get_status"} -> "GET"
                         [] BuiltApi \in {"execute_lifecycle", "put_lifecycle"} -> "PUT"
                         [] BuiltApi \in {"execute_retention", "start", "stop"} -> "POST")
        /\ r.method \in {"DELETE", "GET"} => (r.body = None /\ CallsOf("body") = {})
        /\ r.method \in {"PUT", "POST"} => r.body = LastArg("body")

C36_Witness ==
    /\ IsSome(request)
    /\ BuiltApi = "execute_lifecycle"
    /\ Unwrap(request).method = "PUT"
    /\ Len(trail) = 3
    /\ trail[2].call = "body" /\ trail[2].arg = "{}"
    /\ trail[3].call = "body" /\ trail[3].arg = "[1]"
    /\ Unwrap(request).body = Some("[1]")

ParamNames == <<"error_trace", "filter_path", "human", "pretty", "source">>

\* The query parameter of the given name as the last call of its setter gives it.
LastParam(name) ==
    CASE name \in {"error_trace", "human", "pretty"} -> OptionBool(LastArg(name))
      [] name = "filter_path" -> OptionColl(LastArg(name))
      [] name = "source" -> LastArg(name)

\* Every field of the builder holds what the last call of its setter gave it and
\* is unset when the setter was never called; the parts are those of new().
BuilderFollowsTrail ==
    IsSome(builder) =>
        LET b == Unwrap(builder) IN
        /\ b.api = BuiltApi /\ b.parts = BuiltParts
        /\ b.error_trace = LastArg("error_trace")
        /\ b.filter_path = LastArg("filter_path")
        /\ b.human = LastArg("human")
        /\ b.pretty = LastArg("pretty")
        /\ b.source = LastArg("source")
        /\ b.body = LastArg("body")
        /\ b.headers = LastHeaders

\* The request holds a query parameter exactly for the setters that were called,
\* with the value of the last call, and the headers that were inserted.
RequestFollowsTrail ==
    IsSome(request) =>
        LET r == Unwrap(request)
            set == SelectSeq(ParamNames, LAMBDA name : IsSome(LastParam(name)))
        IN  /\ r.query = [n \in 1..Len(set) |-> <<set[n], Unwrap(LastParam(set[n]))>>]
            /\ r.headers = LastHeaders

Fields ==
    {"api", "parts", "body", "error_trace", "filter_path", "headers", "human", "pretty",
     "source"}
FieldOf(call) == IF call = "header" THEN "headers" ELSE call

\* A setter leaves every field but its own as it was.
SetterFrame ==
    (IsSome(builder) /\ IsSome(builder')) =>
        \A f \in Fields \ {FieldOf(trail'[Len(trail')].call)} :
            Unwrap(builder')[f] = Unwrap(builder)[f]

\* C37: a new builder has every optional parameter unset and no headers; each
\* setter changes only its own field and leaves the other fields and the parts
\* unchanged; a later call of the same setter replaces the earlier value; and a
\* parameter that was never set is absent from the query of the sent request.
C37_SettersFrame ==
    /\ []BuilderFollowsTrail
    /\ []RequestFollowsTrail
    /\ [][SetterFrame]_vars

C37_Witness ==
    /\ IsSome(request)
    /\ Len(trail) = 4
    /\ trail[2].call = "pretty" /\ trail[2].arg = TRUE
    /\ trail[3].call = "pretty" /\ trail[3].arg = FALSE
    /\ trail[4].call = "header"
    /\ Unwrap(request).query = << <<"pretty", "false">> >>
    /\ Unwrap(request).headers = {<<"x-opaque-id", "2">>}

====
